---- MODULE Spec2Model ----
(***************************************************************************)
(* Entity-churn analysis of Vault audit logs                               *)
(* (src/bin/vault_audit_k8s_auth_analysis.py).                             *)
(*                                                                         *)
(* Python values are records tagged by their type; a str is the sequence   *)
(* of its tokens, a token being either one of the characters the code      *)
(* looks at ("/", " ", newline) or a whole run of other characters         *)
(* ("login", "kubernetes", "prod", ...).  A dict read from JSON is a       *)
(* function from its keys; the dicts the program builds keep their         *)
(* insertion order beside the mapping.                                     *)
(***************************************************************************)
EXTENDS Integers, Sequences, FiniteSets, TLC

VARIABLES
    consumed,   \* the lines read from the log file so far, in order
    mounts,     \* mounts: accessor -> bucket (insertion-ordered)
    totals,     \* totals: lines, parsed, skipped, responses, k8s_ok
    pc,         \* position in analyze_ephemeral_entity_churn
    di,         \* section 4: number of (mount, label) pairs already diagnosed
    row,        \* section 4: the locals of the pair diagnosed last
    printed,    \* section 4: the diagnostic rows printed so far
    report,     \* sections 1 to 3: rows, ranked lists; the value returned
    fn_in,      \* argument of the function under check (function specifications)
    fn_out      \* its result

vars == <<consumed, mounts, totals, pc, di, row, printed, report, fn_in, fn_out>>

---------------------------------------------------------------------------
(* Python values *)

None == [k |-> "none"]
PyBool(b) == [k |-> "bool", b |-> b]
PyInt(n) == [k |-> "int", n |-> n]
PyStr(s) == [k |-> "str", s |-> s]
PyList(n) == [k |-> "list", n |-> n]      \* a list of n elements
PyDict(o) == [k |-> "dict", o |-> o]
EmptyObj == PyDict(<<>>)
\* An exception leaving the function that was called.
Raised == [k |-> "raise"]

S(tok) == PyStr(<<tok>>)
EmptyStr == PyStr(<<>>)
NL == "\n"
SP == " "

\* bool(v)
Truthy(v) ==
    CASE v.k = "none" -> FALSE
      [] v.k = "bool" -> v.b
      [] v.k = "int"  -> v.n # 0
      [] v.k = "str"  -> v.s # <<>>
      [] v.k = "list" -> v.n > 0
      [] v.k = "dict" -> DOMAIN v.o # {}
      [] OTHER -> FALSE

\* a or b
Or(a, b) == IF Truthy(a) THEN a ELSE b

IsNumber(v) == v.k \in {"bool", "int"}
NumOf(v) == IF v.k = "bool" THEN (IF v.b THEN 1 ELSE 0) ELSE v.n

\* a == b  (a bool is the int 0 or 1)
PyEq(a, b) ==
    IF IsNumber(a) /\ IsNumber(b) THEN NumOf(a) = NumOf(b) ELSE a = b

\* hash(v) succeeds
Hashable(v) == v.k \notin {"list", "dict"}

\* d.get(key, default) on a dict
GetD(d, key, default) == IF key \in DOMAIN d.o THEN d.o[key] ELSE default
Get(d, key) == GetD(d, key, None)

---------------------------------------------------------------------------
(* str methods and the regular expressions, on token sequences *)

Front(s) == SubSeq(s, 1, Len(s) - 1)
Last(s) == s[Len(s)]
MaxOf(I) == CHOOSE i \in I : \A j \in I : j <= i

IsSpace(tok) == tok \in {SP, NL}

RECURSIVE DropTrailingSlashes(_)
DropTrailingSlashes(s) ==
    IF s # <<>> /\ Last(s) = "/" THEN DropTrailingSlashes(Front(s)) ELSE s

\* TRAILING_SLASH_RE.sub('', s) with TRAILING_SLASH_RE = /+$ : '$' matches at
\* the end of the string and also just before a newline that ends it.
TrailingSlashSub(s) ==
    IF s = <<>> THEN s
    ELSE IF Last(s) = "/" THEN DropTrailingSlashes(s)
    ELSE IF Last(s) = NL THEN DropTrailingSlashes(Front(s)) \o <<NL>>
    ELSE s

\* LOGIN_TAIL_RE.search(s) with LOGIN_TAIL_RE = /+login$
LoginTailSearch(s) ==
    LET t == IF s # <<>> /\ Last(s) = NL THEN Front(s) ELSE s
    IN  Len(t) >= 2 /\ t[Len(t)] = "login" /\ t[Len(t) - 1] = "/"

\* w in s, for a word w that is one token
Contains(s, w) == \E i \in 1..Len(s) : s[i] = w

RECURSIVE LStrip(_)
LStrip(s) == IF s # <<>> /\ IsSpace(Head(s)) THEN LStrip(Tail(s)) ELSE s
RECURSIVE RStrip(_)
RStrip(s) == IF s # <<>> /\ IsSpace(Last(s)) THEN RStrip(Front(s)) ELSE s
\* s.strip()
Strip(s) == LStrip(RStrip(s))

\* s.rsplit('/login', 1)[0]
RSplitLogin(s) ==
    LET I == {i \in 1..(Len(s) - 1) : s[i] = "/" /\ s[i + 1] = "login"}
    IN  IF I = {} THEN s ELSE SubSeq(s, 1, MaxOf(I) - 1)

---------------------------------------------------------------------------
(* Configuration thresholds and patterns *)

ENTITY_LOGIN_THRESHOLD == 200
SA_ENTITY_THRESHOLD == 50
\* SINGLETON_RATIO_THRESHOLD = 0.80, as the fraction SingletonRatioNum / SingletonRatioDen
SingletonRatioNum == 80
SingletonRatioDen == 100
P95_LOGIN_THRESHOLD == 10
TOP_N == 15
K8S_WORDS == {"kubernetes", "openshift"}

---------------------------------------------------------------------------
(* The functions of the module *)

\* A line of the file is what json.loads can see of it: the text before the
\* JSON document (none, text without '{', or text holding a '{'), and the
\* document that follows (none, text from a '{' that is no valid JSON, or an
\* object, held as the dict json.loads returns).
HasJsonStart(line) == line.prefix = "brace" \/ line.json # "none"

\* json.loads(line) without the search for the first '{'
coerce_json_whole_line(line) ==
    IF line.prefix # "none" \/ line.json # "object" THEN Raised ELSE line.entry

\* coerce_json(line): JSON_START_RE finds the first '{' and json.loads parses
\* from there to the end of the line.
coerce_json(line) ==
    IF ~HasJsonStart(line) THEN Raised
    ELSE IF line.prefix = "brace" \/ line.json = "invalid" THEN Raised
    ELSE line.entry

norm_path(p) ==
    IF ~Truthy(p) THEN EmptyStr
    ELSE IF p.k # "str" THEN Raised
    ELSE PyStr(TrailingSlashSub(p.s))

is_k8s_login(path, mount_type) ==
    LET p == norm_path(path)
    IN  IF p = Raised THEN Raised
        ELSE IF ~Truthy(p) THEN PyBool(FALSE)
        ELSE IF LoginTailSearch(p.s) /\ (\E w \in K8S_WORDS : Contains(p.s, w))
            THEN PyBool(TRUE)
        ELSE IF LoginTailSearch(p.s)
                /\ (\E w \in {"kubernetes", "openshift"} : PyEq(mount_type, S(w)))
            THEN PyBool(TRUE)
        ELSE PyBool(FALSE)

\* int(st) == 200, False when int() raises (the bare except of status_ok)
IntIs200(st) ==
    CASE st.k = "int"  -> st.n = 200
      [] st.k = "bool" -> FALSE
      [] st.k = "str"  -> Strip(st.s) = <<"200">>
      [] OTHER -> FALSE

\* status_ok without its test of the type (lines 65-66 left out)
status_ok_any_type(entry) ==
    IF ~(\E x \in {None, PyBool(FALSE), EmptyStr} : PyEq(Get(entry, "error"), x))
    THEN PyBool(FALSE)
    ELSE LET resp == Or(Get(entry, "response"), EmptyObj)
         IN  IF resp.k # "dict" THEN Raised
             ELSE LET st == GetD(resp, "status", Get(resp, "http_status"))
                  IN  PyBool(st = None \/ IntIs200(st))

status_ok(entry) ==
    IF ~PyEq(Get(entry, "type"), S("response")) THEN PyBool(FALSE)
    ELSE IF ~(\E x \in {None, PyBool(FALSE), EmptyStr} : PyEq(Get(entry, "error"), x))
        THEN PyBool(FALSE)
    ELSE LET resp == Or(Get(entry, "response"), EmptyObj)
         IN  IF resp.k # "dict" THEN Raised
             ELSE LET st == GetD(resp, "status", Get(resp, "http_status"))
                  IN  PyBool(st = None \/ IntIs200(st))

RECURSIVE SafeGetFrom(_, _, _)
SafeGetFrom(cur, keys, default) ==
    IF keys = <<>> THEN (IF cur = None THEN default ELSE cur)
    ELSE IF cur.k # "dict" THEN default
    ELSE SafeGetFrom(Get(cur, Head(keys)), Tail(keys), default)

safe_get(d, keys, default) == SafeGetFrom(Or(d, EmptyObj), keys, default)

NO_NS == "(no-ns)"
NO_SA == "(no-sa)"

\* The label once sa and ns are stripped strings (lines 95-102).
LabelOf(entry, sa, ns) ==
    IF sa = <<>> /\ ns = <<>>
    THEN LET d == Or(safe_get(entry, <<"auth", "display_name">>, EmptyStr), EmptyStr)
         IN  IF d.k # "str" THEN Raised
             ELSE IF Strip(d.s) = <<>> THEN None
             ELSE PyStr(<<NO_NS, "/">> \o Strip(d.s))
    ELSE PyStr((IF ns # <<>> THEN ns ELSE <<NO_NS>>) \o <<"/">>
               \o (IF sa # <<>> THEN sa ELSE <<NO_SA>>))

extract_sa_label(entry) ==
    LET md == Or(safe_get(entry, <<"auth", "metadata">>, EmptyObj), EmptyObj)
    IN  IF md.k # "dict" THEN Raised
        ELSE LET sa == Or(Get(md, "service_account_name"), EmptyStr)
                 ns == Or(Get(md, "service_account_namespace"),
                          Or(Get(md, "kubernetes_namespace"),
                             Or(Get(md, "namespace"), EmptyStr)))
             IN  IF sa.k # "str" \/ ns.k # "str" THEN Raised
                 ELSE LabelOf(entry, Strip(sa.s), Strip(ns.s))

---------------------------------------------------------------------------
(* The dicts, Counters and sets the program builds *)

\* A dict: its keys in insertion order, and the mapping.
EmptyDict == [ord |-> <<>>, map |-> <<>>]
Keys(d) == DOMAIN d.map
Has(d, key) == \E x \in Keys(d) : PyEq(x, key)
\* the key as stored (the first one inserted among equal keys)
KeyOf(d, key) == IF Has(d, key) THEN CHOOSE x \in Keys(d) : PyEq(x, key) ELSE key
At(d, key, default) == IF Has(d, key) THEN d.map[KeyOf(d, key)] ELSE default
\* d = {key: val} written for d[key] = val
PutAlone(d, key, val) == [ord |-> <<key>>, map |-> (key :> val)]
\* d[key] = val
Put(d, key, val) ==
    [ord |-> IF Has(d, key) THEN d.ord ELSE Append(d.ord, key),
     map |-> (KeyOf(d, key) :> val) @@ d.map]
\* c[key] = 1 written for c[key] += 1
CounterIncOverwrites(c, key) == Put(c, key, 1)
\* c[key] += 1 on a Counter
CounterInc(c, key) == Put(c, key, At(c, key, 0) + 1)
\* the add left out
SetAddDropped(s, v) == s
\* s = {v} written for s.add(v)
SetAddReplaces(s, v) == {v}
\* s.append(v) on a list written for s.add(v): an element for every add
SetAddAppends(s, v) == s \cup {IF v \in s THEN PyStr(v.s \o <<"'">>) ELSE v}
\* s.add(v)
SetAdd(s, v) == IF \E x \in s : PyEq(x, v) THEN s ELSE s \cup {v}
\* d[key] = {v} written for d[key].add(v)
DictSetAddReplaces(d, key, v) == Put(d, key, {v})
\* d[key].add(v) on a defaultdict(set)
DictSetAdd(d, key, v) == Put(d, key, SetAdd(At(d, key, {}), v))

\* The default bucket of mounts (lines 109-117).
NewBucket ==
    [display_mount |-> None,
     ok_count |-> 0,
     fail_count |-> 0,
     entity_ids |-> {},
     per_entity_logins |-> EmptyDict,
     per_sa_logins |-> EmptyDict,
     per_sa_entities |-> EmptyDict]

NewTotals == [lines |-> 0, parsed |-> 0, skipped |-> 0, responses |-> 0, k8s_ok |-> 0]

---------------------------------------------------------------------------
(* One iteration of the loop over the lines (lines 133-184) *)

\* What an iteration leaves: the tables, and whether an exception left the loop.
Outcome(m, t, crashed) == [mounts |-> m, totals |-> t, crashed |-> crashed]

\* lines 167-184 with the test `if sa_label` left out: a success without label
\* is counted under the label '(no-ns)/(no-sa)'
RecordStatusLabelsAlways(m, t, accessor, entry) ==
    LET b        == At(m, accessor, NewBucket)
        ok       == status_ok(entry)
        eid      == safe_get(entry, <<"auth", "entity_id">>, None)
        sa_label == extract_sa_label(entry)
        label    == IF Truthy(sa_label) THEN sa_label ELSE PyStr(<<NO_NS, "/", NO_SA>>)
    IN  IF ok = Raised \/ sa_label = Raised \/ (Truthy(eid) /\ ~Hashable(eid))
        THEN Outcome(m, t, TRUE)
        ELSE IF ok = PyBool(TRUE)
        THEN Outcome(Put(m, accessor,
                         [b EXCEPT !.ok_count = @ + 1,
                                   !.entity_ids = IF Truthy(eid) THEN SetAdd(@, eid) ELSE @,
                                   !.per_entity_logins =
                                       IF Truthy(eid) THEN CounterInc(@, eid) ELSE @,
                                   !.per_sa_logins = CounterInc(@, label),
                                   !.per_sa_entities =
                                       IF Truthy(eid) THEN DictSetAdd(@, label, eid) ELSE @]),
                     [t EXCEPT !.k8s_ok = @ + 1], FALSE)
        ELSE Outcome(Put(m, accessor, [b EXCEPT !.fail_count = @ + 1]), t, FALSE)

\* Lines 167-184, for a login record whose bucket exists.
RecordStatus(m, t, accessor, entry) ==
    LET b  == At(m, accessor, NewBucket)
        ok == status_ok(entry)
    IN  IF ok = Raised THEN Outcome(m, t, TRUE)
        ELSE IF ok = PyBool(TRUE)
        THEN LET t1  == [t EXCEPT !.k8s_ok = @ + 1]
                 b1  == [b EXCEPT !.ok_count = @ + 1]
                 eid == safe_get(entry, <<"auth", "entity_id">>, None)
             IN  IF Truthy(eid) /\ ~Hashable(eid)
                 THEN Outcome(Put(m, accessor, b1), t1, TRUE)
                 ELSE LET b2 == IF Truthy(eid)
                                THEN [b1 EXCEPT !.entity_ids = SetAdd(@, eid),
                                                !.per_entity_logins = CounterInc(@, eid)]
                                ELSE b1
                          sa_label == extract_sa_label(entry)
                      IN  IF sa_label = Raised THEN Outcome(Put(m, accessor, b2), t1, TRUE)
                          ELSE IF Truthy(sa_label)
                          THEN LET b3 == [b2 EXCEPT
                                            !.per_sa_logins = CounterInc(@, sa_label),
                                            !.per_sa_entities =
                                                IF Truthy(eid)
                                                THEN DictSetAdd(@, sa_label, eid)
                                                ELSE @]
                               IN  Outcome(Put(m, accessor, b3), t1, FALSE)
                          ELSE Outcome(Put(m, accessor, b2), t1, FALSE)
        ELSE Outcome(Put(m, accessor, [b EXCEPT !.fail_count = @ + 1]), t, FALSE)

\* Lines 158-164: the bucket of a login record, created on first use.
\* the bucket keyed by the mount path whatever the accessor
MountKeyByPath(req, path) == PyStr(RSplitLogin(path.s))
MountKey(req, path) == Or(Get(req, "mount_accessor"), PyStr(RSplitLogin(path.s)))
DisplayMount(path) == Or(PyStr(RSplitLogin(path.s)), S("(unknown-mount)"))

\* bucket['display_mount'] = disp_mount written without its test for None
RecordLoginRelabels(m, t, entry, req, path) ==
    LET accessor == MountKey(req, path)
    IN  IF ~Hashable(accessor) THEN Outcome(m, t, TRUE)
        ELSE LET b0 == At(m, accessor, NewBucket)
                 b1 == [b0 EXCEPT !.display_mount = DisplayMount(path)]
             IN  RecordStatus(Put(m, accessor, b1), t, accessor, entry)

RecordLogin(m, t, entry, req, path) ==
    LET accessor == MountKey(req, path)
    IN  IF ~Hashable(accessor) THEN Outcome(m, t, TRUE)
        ELSE LET b0 == At(m, accessor, NewBucket)
                 b1 == IF b0.display_mount = None
                       THEN [b0 EXCEPT !.display_mount = DisplayMount(path)]
                       ELSE b0
             IN  RecordStatus(Put(m, accessor, b1), t, accessor, entry)

\* Lines 148-156, for a parsed entry.
RecordEntry(m, t, entry) ==
    LET t1  == IF PyEq(Get(entry, "type"), S("response"))
               THEN [t EXCEPT !.responses = @ + 1]
               ELSE t
        req == Or(Get(entry, "request"), EmptyObj)
    IN  IF req.k # "dict" THEN Outcome(m, t1, TRUE)
        ELSE LET path == norm_path(GetD(req, "path", EmptyStr))
             IN  IF path = Raised THEN Outcome(m, t1, TRUE)
                 ELSE IF is_k8s_login(path, Get(req, "mount_type")) # PyBool(TRUE)
                 THEN Outcome(m, t1, FALSE)
                 ELSE RecordLogin(m, t1, entry, req, path)

\* Lines 134-146 and on: the whole iteration for one line.
ProcessLine(m, t, line) ==
    LET t1    == [t EXCEPT !.lines = @ + 1]
        entry == coerce_json(line)
    IN  IF entry = Raised
        THEN Outcome(m, [t1 EXCEPT !.skipped = @ + 1], FALSE)
        ELSE RecordEntry(m, [t1 EXCEPT !.parsed = @ + 1], entry)

\* The loop over a sequence of lines, from given tables; an exception ends it.
\* The lines are taken in order, the first half before the second.
RECURSIVE RunFrom(_, _, _)
RunFrom(m, t, lines) ==
    IF lines = <<>> THEN Outcome(m, t, FALSE)
    ELSE IF Len(lines) = 1 THEN ProcessLine(m, t, lines[1])
    ELSE LET h == Len(lines) \div 2
             o == RunFrom(m, t, SubSeq(lines, 1, h))
         IN  IF o.crashed THEN o
             ELSE RunFrom(o.mounts, o.totals, SubSeq(lines, h + 1, Len(lines)))

RunStream(lines) == RunFrom(EmptyDict, NewTotals, lines)

---------------------------------------------------------------------------
(* Section 4 of the report: distribution diagnostics (lines 262-296) *)

\* The (accessor, label) pairs in the order the two nested loops visit them.
RECURSIVE PairsOfMounts(_, _)
PairsOfMounts(m, accs) ==
    IF accs = <<>> THEN <<>>
    ELSE LET labels == m.map[Head(accs)].per_sa_entities.ord
         IN  [i \in 1..Len(labels) |-> <<Head(accs), labels[i]>>]
             \o PairsOfMounts(m, Tail(accs))

DiagPairs(m) == PairsOfMounts(m, m.ord)

\* The orders in which iterating a set may yield its elements.
RECURSIVE Orders(_)
Orders(set) ==
    IF set = {} THEN {<<>>}
    ELSE UNION {{<<x>> \o o : o \in Orders(set \ {x})} : x \in set}

\* [b['per_entity_logins'][eid] for eid in ents if eid in b['per_entity_logins']]
RECURSIVE CountsOf(_, _)
CountsOf(b, order) ==
    IF order = <<>> THEN <<>>
    ELSE (IF Has(b.per_entity_logins, Head(order))
          THEN <<At(b.per_entity_logins, Head(order), 0)>>
          ELSE <<>>) \o CountsOf(b, Tail(order))

\* The merge of two ascending lists; of equal elements those of a come first.
Merge(a, b) ==
    LET n       == Len(a) + Len(b)
        posA(i) == i + Cardinality({j \in 1..Len(b) : b[j] < a[i]})
        posB(j) == j + Cardinality({i \in 1..Len(a) : a[i] <= b[j]})
        merged  == [p \in 1..n |->
                      IF \E i \in 1..Len(a) : posA(i) = p
                      THEN a[CHOOSE i \in 1..Len(a) : posA(i) = p]
                      ELSE b[CHOOSE j \in 1..Len(b) : posB(j) = p]]
    IN  SubSeq(merged, 1, n)

\* the list used as it was enumerated
Unsorted(s) == s
\* sorted(s): ascending and stable, by merging the sorted halves
RECURSIVE Sorted(_)
Sorted(s) ==
    IF Len(s) <= 1 THEN s
    ELSE LET h == Len(s) \div 2
         IN  Merge(Sorted(SubSeq(s, 1, h)), Sorted(SubSeq(s, h + 1, Len(s))))

\* x >= 1 written for x == 1
SingletonsAtLeastOne(counts) == Cardinality({i \in 1..Len(counts) : counts[i] >= 1})
\* sum(1 for x in counts if x == 1)
Singletons(counts) == Cardinality({i \in 1..Len(counts) : counts[i] = 1})

\* round(num / den) of Python 3: to the nearest integer, a tie to the even one
Round(num, den) ==
    LET q == num \div den
        r == num % den
    IN  IF 2 * r > den \/ (2 * r = den /\ q % 2 = 1) THEN q + 1 ELSE q

Min2(a, b) == IF a <= b THEN a ELSE b
Max2(a, b) == IF a >= b THEN a ELSE b

\* max(0, min(n - 1, int(round(0.95 * (n - 1))))), n = len(counts_sorted)
P95Index(n) == Max2(0, Min2(n - 1, Round(95 * (n - 1), 100)))

\* counts_sorted[idx], Python's index counted from 0
P95(counts) == Sorted(counts)[P95Index(Len(counts)) + 1]

\* singleton_ratio >= SINGLETON_RATIO_THRESHOLD, singleton_ratio = singletons / n
SingletonHeavy(singletons, n) ==
    singletons * SingletonRatioDen >= SingletonRatioNum * n

HighP95(p95) == p95 >= P95_LOGIN_THRESHOLD

\* the second flag under an elif
OffendersExclusive(singletons, n, p95) ==
    IF SingletonHeavy(singletons, n) THEN <<"SINGLETON_HEAVY">>
    ELSE IF HighP95(p95) THEN <<"HIGH_P95">>
    ELSE <<>>

Offenders(singletons, n, p95) ==
    (IF SingletonHeavy(singletons, n) THEN <<"SINGLETON_HEAVY">> ELSE <<>>)
    \o (IF HighP95(p95) THEN <<"HIGH_P95">> ELSE <<>>)

NoRow == [computed |-> FALSE]

\* The locals of one iteration of the inner loop that got past `if not counts`;
\* singleton_ratio is the quotient singletons / len(counts), kept as a fraction.
DiagRow(accessor, mlabel, sa, counts) ==
    [computed |-> TRUE,
     accessor |-> accessor,
     mlabel |-> mlabel,
     sa |-> sa,
     counts |-> counts,
     counts_sorted |-> Sorted(counts),
     singletons |-> Singletons(counts),
     singleton_ratio |-> [num |-> Singletons(counts), den |-> Len(counts)],
     idx |-> P95Index(Len(counts)),
     p95 |-> P95(counts),
     offenders |-> Offenders(Singletons(counts), Len(counts), P95(counts))]

---------------------------------------------------------------------------
(* Sections 1 to 3 of the report and the value returned (lines 204-256, 336-341) *)

\* sorted(s, key=..., reverse=True), keys[i] being the key of s[i]: descending,
\* elements of equal key in the order they have in s.
SortedDesc(s, keys) ==
    LET n    == Len(s)
        pos  == SubSeq([i \in 1..n |->
                          1 + Cardinality({j \in 1..n :
                                  keys[j] > keys[i] \/ (keys[j] = keys[i] /\ j < i)})],
                       1, n)
        out  == [p \in 1..n |-> s[CHOOSE i \in 1..n : pos[i] = p]]
    IN  SubSeq(out, 1, n)

\* s[:n], n >= 0
Take(s, n) == SubSeq(s, 1, Min2(n, Len(s)))

\* a / b: the quotient kept as a fraction, ZeroDivisionError when b is 0
Quotient(a, b) == IF b = 0 THEN Raised ELSE [num |-> a, den |-> b]
Zero == [num |-> 0, den |-> 1]
\* round(x, 1), in tenths.  A quotient of denominator below 20 that lies
\* halfway between two tenths is a multiple of 1/4, which a float holds
\* exactly, and round sends it to the even tenth.
Tenths(n) == [k |-> "float", tenths |-> n]
Round1(x) == IF x = Raised THEN Raised ELSE Tenths(Round(10 * x.num, x.den))

\* the division without its guard
EntRatioUnguarded(ok, ents) == Quotient(ok, ents)
\* (ok / ents) if ents else 0.0
EntRatio(ok, ents) == IF ents # 0 THEN Quotient(ok, ents) ELSE Zero
\* (ents / sa_cnt) if sa_cnt else 0.0
EntitiesPerSa(ents, sa_cnt) == IF sa_cnt # 0 THEN Quotient(ents, sa_cnt) ELSE Zero

\* The tuple appended to rows for bucket b (lines 206-212); the two ratios are
\* rounded to tenths.
SummaryRow(b) ==
    LET ok     == b.ok_count
        ents   == Cardinality(b.entity_ids)
        sa_cnt == Len(b.per_sa_entities.ord)
    IN  [display_mount |-> b.display_mount,
         ok |-> ok,
         fail_count |-> b.fail_count,
         ents |-> ents,
         sa_cnt |-> sa_cnt,
         ent_ratio |-> Round1(EntRatio(ok, ents)),
         entities_per_sa |-> Round1(EntitiesPerSa(ents, sa_cnt))]

\* rows before the sort: one per bucket, in the order of mounts
SummaryRows(m) == [i \in 1..Len(m.ord) |-> SummaryRow(m.map[m.ord[i]])]

\* rows.sort(key=lambda r: r[1], reverse=True)
SortedRows(rows) == SortedDesc(rows, [i \in 1..Len(rows) |-> rows[i].ok])

\* The (eid, c) items of per_entity_logins of every bucket, with the display
\* mount of the bucket, in the order the loops of lines 225-226 visit them.
RECURSIVE EntityItems(_, _)
EntityItems(m, accs) ==
    IF accs = <<>> THEN <<>>
    ELSE LET b   == m.map[Head(accs)]
             pel == b.per_entity_logins
         IN  SubSeq([i \in 1..Len(pel.ord) |->
                        [eid |-> pel.ord[i], c |-> pel.map[pel.ord[i]],
                         mount |-> b.display_mount]], 1, Len(pel.ord))
             \o EntityItems(m, Tail(accs))

\* The loops below take their items in order, the first half before the second;
\* a dict never loses a key on the way.
\* global_entity_counts[eid] += c over the items, from the Counter c
RECURSIVE GlobalEntityCountsFrom(_, _)
GlobalEntityCountsFrom(c, items) ==
    IF items = <<>> THEN c
    ELSE IF Len(items) = 1 THEN Put(c, items[1].eid, At(c, items[1].eid, 0) + items[1].c)
    ELSE LET h == Len(items) \div 2
             o == GlobalEntityCountsFrom(c, SubSeq(items, 1, h))
         IN  IF Len(o.ord) < Len(c.ord) THEN c
             ELSE GlobalEntityCountsFrom(o, SubSeq(items, h + 1, Len(items)))
GlobalEntityCounts(items) == GlobalEntityCountsFrom(EmptyDict, items)

\* entity_mount[eid] = b['display_mount'] over the items, from the dict d
RECURSIVE EntityMountFrom(_, _)
EntityMountFrom(d, items) ==
    IF items = <<>> THEN d
    ELSE IF Len(items) = 1 THEN Put(d, items[1].eid, items[1].mount)
    ELSE LET h == Len(items) \div 2
             o == EntityMountFrom(d, SubSeq(items, 1, h))
         IN  IF Len(o.ord) < Len(d.ord) THEN d
             ELSE EntityMountFrom(o, SubSeq(items, h + 1, Len(items)))
EntityMount(items) == EntityMountFrom(EmptyDict, items)

\* the list taken in the order of its dict
Unranked(s, keys) == s
\* the order of Counter.most_common and of sorted(..., reverse=True)
Ranked(s, keys) == SortedDesc(s, keys)

\* c > ENTITY_LOGIN_THRESHOLD written for >=
EntityFlagStrict(c) == c > ENTITY_LOGIN_THRESHOLD
\* c >= ENTITY_LOGIN_THRESHOLD (line 231)
EntityFlag(c) == c >= ENTITY_LOGIN_THRESHOLD
\* ent_n >= SA_ENTITY_THRESHOLD (line 254)
SaFlag(ent_n) == ent_n >= SA_ENTITY_THRESHOLD

\* The lines printed by section 2: global_entity_counts.most_common(TOP_N).
TopEntityRows(counts, entity_mount) ==
    LET keys == counts.ord
        top  == Take(Ranked(keys, [i \in 1..Len(keys) |-> counts.map[keys[i]]]), TOP_N)
    IN  SubSeq([i \in 1..Len(top) |->
                  [eid |-> top[i],
                   c |-> counts.map[top[i]],
                   mount |-> At(entity_mount, top[i], S("?")),
                   flag |-> EntityFlag(counts.map[top[i]])]], 1, Len(top))

\* the tuple (mlabel, sa)
PyTuple(a, b) == [k |-> "tuple", v |-> <<a, b>>]

\* key = (accessor, sa) written for key = (mlabel, sa)
RECURSIVE SaItemsByAccessor(_, _, _)
SaItemsByAccessor(m, accs, f) ==
    IF accs = <<>> THEN <<>>
    ELSE LET b == m.map[Head(accs)]
             d == b[f]
         IN  SubSeq([i \in 1..Len(d.ord) |->
                        [key |-> PyTuple(Head(accs), d.ord[i]),
                         val |-> d.map[d.ord[i]]]], 1, Len(d.ord))
             \o SaItemsByAccessor(m, Tail(accs), f)

\* The (sa, value) items of field f of every bucket under the key (mlabel, sa),
\* in the order the loops of lines 241-248 visit them.
RECURSIVE SaItems(_, _, _)
SaItems(m, accs, f) ==
    IF accs = <<>> THEN <<>>
    ELSE LET b == m.map[Head(accs)]
             d == b[f]
         IN  SubSeq([i \in 1..Len(d.ord) |->
                        [key |-> PyTuple(b.display_mount, d.ord[i]),
                         val |-> d.map[d.ord[i]]]], 1, Len(d.ord))
             \o SaItems(m, Tail(accs), f)

\* global_sa_entities[key].update(ents) over the items, from the dict d
RECURSIVE GlobalSaEntitiesFrom(_, _)
GlobalSaEntitiesFrom(d, items) ==
    IF items = <<>> THEN d
    ELSE IF Len(items) = 1
    THEN Put(d, items[1].key, At(d, items[1].key, {}) \cup items[1].val)
    ELSE LET h == Len(items) \div 2
             o == GlobalSaEntitiesFrom(d, SubSeq(items, 1, h))
         IN  IF Len(o.ord) < Len(d.ord) THEN d
             ELSE GlobalSaEntitiesFrom(o, SubSeq(items, h + 1, Len(items)))
GlobalSaEntities(items) == GlobalSaEntitiesFrom(EmptyDict, items)

\* global_sa_logins[key] += c over the items, from the Counter d
RECURSIVE GlobalSaLoginsFrom(_, _)
GlobalSaLoginsFrom(d, items) ==
    IF items = <<>> THEN d
    ELSE IF Len(items) = 1
    THEN Put(d, items[1].key, At(d, items[1].key, 0) + items[1].val)
    ELSE LET h == Len(items) \div 2
             o == GlobalSaLoginsFrom(d, SubSeq(items, 1, h))
         IN  IF Len(o.ord) < Len(d.ord) THEN d
             ELSE GlobalSaLoginsFrom(o, SubSeq(items, h + 1, Len(items)))
GlobalSaLogins(items) == GlobalSaLoginsFrom(EmptyDict, items)

\* The lines printed by section 3: top_sa (lines 250-256).
TopSaRows(sa_entities, sa_logins) ==
    LET keys == sa_entities.ord
        top  == Take(Ranked(keys, [i \in 1..Len(keys) |->
                                     Cardinality(sa_entities.map[keys[i]])]), TOP_N)
    IN  SubSeq([i \in 1..Len(top) |->
                  [mount_label |-> top[i].v[1],
                   sa_label |-> top[i].v[2],
                   ent_n |-> Cardinality(sa_entities.map[top[i]]),
                   logins |-> At(sa_logins, top[i], 0),
                   flag |-> SaFlag(Cardinality(sa_entities.map[top[i]]))]], 1, Len(top))

\* the sizes of the sets added up
TotalEntitiesSummed(m) ==
    LET sizes == [i \in 1..Len(m.ord) |-> Cardinality(m.map[m.ord[i]].entity_ids)]
        sum[i \in 0..Len(m.ord)] == IF i = 0 THEN 0 ELSE sum[i - 1] + sizes[i]
    IN  sum[Len(m.ord)]
\* len(set().union(*[b['entity_ids'] for b in mounts.values()]))
TotalEntities(m) ==
    LET all == UNION {m.map[a].entity_ids : a \in Keys(m)}
    IN  Cardinality({{y \in all : PyEq(x, y)} : x \in all})

\* The dict returned (lines 336-341).
ReturnValue(m, t, sa_entities) ==
    [total_logins |-> t.k8s_ok,
     total_entities |-> TotalEntities(m),
     total_clusters |-> Len(m.ord),
     total_service_accounts |-> Len(sa_entities.ord)]

\* What the report has computed so far.
NoReport ==
    [rows |-> <<>>, global_entity_counts |-> EmptyDict, top_entities |-> <<>>,
     global_sa_entities |-> EmptyDict, global_sa_logins |-> EmptyDict,
     top_sa |-> <<>>, result |-> None]

---------------------------------------------------------------------------
(* Input lines *)

JsonLine(entry) == [prefix |-> "none", json |-> "object", entry |-> entry]
\* a container-log prefix before the object
PrefixedLine(entry) == [prefix |-> "text", json |-> "object", entry |-> entry]
\* a prefix that holds a '{' of its own
BracePrefixedLine(entry) == [prefix |-> "brace", json |-> "object", entry |-> entry]
NotJsonLine == [prefix |-> "text", json |-> "none", entry |-> None]
BadJsonLine == [prefix |-> "none", json |-> "invalid", entry |-> None]

P1 == <<"auth", "/", "kubernetes", "/", "login">>
P2 == <<"auth", "/", "openshift", "/", "login", "/">>
A1 == S("auth_kubernetes_1")
A2 == S("auth_kubernetes_2")
E1 == S("e1")
E2 == S("e2")
\* label prod/svc-a
MD1 == PyDict([service_account_namespace |-> S("prod"), service_account_name |-> S("svc-a")])
\* label dev/(no-sa)
MD2 == PyDict([namespace |-> S("dev")])

Request(path, accessor) ==
    PyDict([path |-> PyStr(path), mount_type |-> S("kubernetes"),
            mount_accessor |-> accessor])
Auth(eid, md) == PyDict([entity_id |-> eid, metadata |-> md])

\* a response to a login, without error or status
OkLogin(accessor, path, eid, md) ==
    PyDict([type |-> S("response"), request |-> Request(path, accessor),
            auth |-> Auth(eid, md)])
FailedLogin(accessor, path) ==
    PyDict([type |-> S("response"), request |-> Request(path, accessor),
            error |-> S("permission denied")])
\* the request half of a login
LoginRequest(accessor, path) ==
    PyDict([type |-> S("request"), request |-> Request(path, accessor)])
OtherResponse ==
    PyDict([type |-> S("response"),
            request |-> PyDict([path |-> PyStr(<<"sys", "/", "health">>)])])

\* Lines that are read to the end of the iteration.
GoodLines ==
    {NotJsonLine,
     BadJsonLine,
     PrefixedLine(OkLogin(A1, P1, E1, MD1)),
     JsonLine(OtherResponse),
     JsonLine(FailedLogin(A1, P1)),
     JsonLine(LoginRequest(A1, P1)),
     JsonLine(OkLogin(A1, P1, E2, MD1)),
     JsonLine(OkLogin(A1, P1, None, MD1)),
     JsonLine(OkLogin(A1, P1, E1, None)),
     JsonLine(OkLogin(None, P1, E1, MD2)),
     JsonLine(OkLogin(A1, P2, E2, MD2)),
     JsonLine(OkLogin(A2, P1, E1, MD1))}

\* Valid JSON objects whose fields have a type the code does not expect.
OddLines ==
    {JsonLine(OkLogin(A1, P1, PyList(1), MD1)),
     JsonLine(PyDict([type |-> S("response"), request |-> S("GET /v1/sys/health")]))}

Lines == GoodLines \cup OddLines

---------------------------------------------------------------------------
(* The run: the loop over the file, then the report *)

MaxLines == 3

Init ==
    /\ consumed = <<>>
    /\ mounts = EmptyDict
    /\ totals = NewTotals
    /\ pc = "read"
    /\ di = 0
    /\ row = NoRow
    /\ printed = <<>>
    /\ report = NoReport
    /\ fn_in = None
    /\ fn_out = None

\* for raw in f: one iteration
ReadLine ==
    /\ pc = "read"
    /\ Len(consumed) < MaxLines
    /\ \E line \in Lines :
         LET o == ProcessLine(mounts, totals, line)
         IN  /\ consumed' = Append(consumed, line)
             /\ mounts' = o.mounts
             /\ totals' = o.totals
             /\ pc' = IF o.crashed THEN "crashed" ELSE "read"
    /\ UNCHANGED <<di, row, printed, report, fn_in, fn_out>>

\* the file is exhausted: the report starts (lines 186-202)
EndOfStream ==
    /\ pc = "read"
    /\ pc' = "summary"
    /\ UNCHANGED <<consumed, mounts, totals, di, row, printed, report, fn_in, fn_out>>

\* the rows of section 1 computed inside the loop, while lines are still read
SummariseWhileReading ==
    /\ pc = "read"
    /\ report' = [report EXCEPT !.rows = SortedRows(SummaryRows(mounts))]
    /\ UNCHANGED <<consumed, mounts, totals, pc, di, row, printed, fn_in, fn_out>>

\* section 1 (lines 204-217); a division by zero would leave the function
Summarise ==
    /\ pc = "summary"
    /\ LET rows == SummaryRows(mounts)
           failed == \E i \in 1..Len(rows) :
                        rows[i].ent_ratio = Raised \/ rows[i].entities_per_sa = Raised
       IN  /\ report' = [report EXCEPT !.rows = IF failed THEN rows ELSE SortedRows(rows)]
           /\ pc' = IF failed THEN "crashed" ELSE "entities"
    /\ UNCHANGED <<consumed, mounts, totals, di, row, printed, fn_in, fn_out>>

\* section 2 (lines 223-232)
TopEntities ==
    /\ pc = "entities"
    /\ LET items  == EntityItems(mounts, mounts.ord)
           counts == GlobalEntityCounts(items)
       IN  report' = [report EXCEPT
                        !.global_entity_counts = counts,
                        !.top_entities = TopEntityRows(counts, EntityMount(items))]
    /\ pc' = "accounts"
    /\ UNCHANGED <<consumed, mounts, totals, di, row, printed, fn_in, fn_out>>

\* global_sa_entities[key] = ents written for global_sa_entities[key].update(ents):
\* the set of the first bucket of a key is shared, and the update for a later
\* bucket of the same key writes into it
TopServiceAccountsAliasing ==
    /\ pc = "accounts"
    /\ LET ents   == GlobalSaEntities(SaItems(mounts, mounts.ord, "per_sa_entities"))
           logins == GlobalSaLogins(SaItems(mounts, mounts.ord, "per_sa_logins"))
           First(a, sa) ==
               \A i \in 1..Len(mounts.ord) :
                  (/\ mounts.map[mounts.ord[i]].display_mount = mounts.map[a].display_mount
                   /\ Has(mounts.map[mounts.ord[i]].per_sa_entities, sa))
                  => \E j \in 1..i : mounts.ord[j] = a
           Shared(a) ==
               LET d == mounts.map[a].per_sa_entities
               IN  [d EXCEPT !.map =
                      [sa \in DOMAIN d.map |->
                         IF First(a, sa)
                         THEN ents.map[PyTuple(mounts.map[a].display_mount, sa)]
                         ELSE d.map[sa]]]
       IN  /\ report' = [report EXCEPT
                           !.global_sa_entities = ents,
                           !.global_sa_logins = logins,
                           !.top_sa = TopSaRows(ents, logins)]
           /\ mounts' = [mounts EXCEPT !.map =
                           [a \in DOMAIN mounts.map |->
                              [mounts.map[a] EXCEPT !.per_sa_entities = Shared(a)]]]
    /\ pc' = "diag"
    /\ UNCHANGED <<consumed, totals, di, row, printed, fn_in, fn_out>>

\* section 3 (lines 238-256)
TopServiceAccounts ==
    /\ pc = "accounts"
    /\ LET ents   == GlobalSaEntities(SaItems(mounts, mounts.ord, "per_sa_entities"))
           logins == GlobalSaLogins(SaItems(mounts, mounts.ord, "per_sa_logins"))
       IN  report' = [report EXCEPT
                        !.global_sa_entities = ents,
                        !.global_sa_logins = logins,
                        !.top_sa = TopSaRows(ents, logins)]
    /\ pc' = "diag"
    /\ UNCHANGED <<consumed, mounts, totals, di, row, printed, fn_in, fn_out>>

\* one iteration of the inner loop of section 4 (lines 265-293)
Diagnose ==
    /\ pc = "diag"
    /\ di < Len(DiagPairs(mounts))
    /\ LET pair == DiagPairs(mounts)[di + 1]
           b    == mounts.map[pair[1]]
           ents == b.per_sa_entities.map[pair[2]]
       IN  \E order \in Orders(ents) :
             LET counts == CountsOf(b, order)
                 r      == DiagRow(pair[1], b.display_mount, pair[2], counts)
             IN  IF counts = <<>>
                 THEN /\ row' = NoRow
                      /\ printed' = printed
                 ELSE /\ row' = r
                      /\ printed' = IF r.offenders = <<>> THEN printed
                                    ELSE Append(printed, r)
    /\ di' = di + 1
    /\ UNCHANGED <<consumed, mounts, totals, pc, report, fn_in, fn_out>>

\* both loops of section 4 are over: the function returns (lines 295-341)
DiagDone ==
    /\ pc = "diag"
    /\ di = Len(DiagPairs(mounts))
    /\ pc' = "done"
    /\ report' = [report EXCEPT
                    !.result = ReturnValue(mounts, totals, report.global_sa_entities)]
    /\ UNCHANGED <<consumed, mounts, totals, di, row, printed, fn_in, fn_out>>

\* the report, from the end of the file to the return
Report == EndOfStream \/ Summarise \/ TopEntities \/ TopServiceAccounts \/ Diagnose \/ DiagDone

Next == ReadLine \/ Report

Spec == Init /\ [][Next]_vars

\* the streaming phase alone: the loop over the lines
SpecRead == Init /\ [][ReadLine]_vars

---------------------------------------------------------------------------
(* Login events of a stream, as the data model of the specification has them *)

\* The line holds an object that the classifier accepts as a login.
IsLoginLine(line) ==
    /\ coerce_json(line) # Raised
    /\ LET req == Or(Get(line.entry, "request"), EmptyObj)
       IN  /\ req.k = "dict"
           /\ norm_path(GetD(req, "path", EmptyStr)) # Raised
           /\ is_k8s_login(norm_path(GetD(req, "path", EmptyStr)),
                           Get(req, "mount_type")) = PyBool(TRUE)

\* LoginEvent: mountKey, success, entityId and workloadLabel (None when absent)
EventOf(line) ==
    LET req   == Or(Get(line.entry, "request"), EmptyObj)
        ok    == status_ok(line.entry) = PyBool(TRUE)
        eid   == safe_get(line.entry, <<"auth", "entity_id">>, None)
        label == extract_sa_label(line.entry)
    IN  [key |-> MountKey(req, norm_path(GetD(req, "path", EmptyStr))),
         success |-> ok,
         eid |-> IF Truthy(eid) THEN eid ELSE None,
         label |-> IF Truthy(label) THEN label ELSE None]

RECURSIVE LoginEvents(_)
LoginEvents(lines) ==
    IF lines = <<>> THEN <<>>
    ELSE (IF IsLoginLine(Head(lines)) THEN <<EventOf(Head(lines))>> ELSE <<>>)
         \o LoginEvents(Tail(lines))

\* sum(c.values())
RECURSIVE SumOver(_, _)
SumOver(c, keys) ==
    IF keys = <<>> THEN 0 ELSE c.map[Head(keys)] + SumOver(c, Tail(keys))
SumValues(c) == SumOver(c, c.ord)

Buckets == {mounts.map[key] : key \in Keys(mounts)}

---------------------------------------------------------------------------
(* C1 *)

\* The successes among the events of one mount key.
SuccessesOf(ev, key) == {i \in 1..Len(ev) : ev[i].key = key /\ ev[i].success}

\* Bucket b is the fold of the events ev of mount key `key`.
IsFoldOf(b, ev, key) ==
    LET succ   == SuccessesOf(ev, key)
        eids   == {ev[i].eid : i \in {j \in succ : ev[j].eid # None}}
        labels == {ev[i].label : i \in {j \in succ : ev[j].label # None}}
    IN  /\ b.ok_count = Cardinality(succ)
        /\ b.fail_count = Cardinality({i \in 1..Len(ev) : ev[i].key = key /\ ~ev[i].success})
        /\ b.entity_ids = eids
        /\ Keys(b.per_entity_logins) = eids
        /\ \A e \in eids :
             b.per_entity_logins.map[e] = Cardinality({i \in succ : ev[i].eid = e})
        /\ Keys(b.per_sa_logins) = labels
        /\ \A l \in labels :
             /\ b.per_sa_logins.map[l] = Cardinality({i \in succ : ev[i].label = l})
             /\ At(b.per_sa_entities, l, {})
                  = {ev[i].eid : i \in {j \in succ : ev[j].label = l /\ ev[j].eid # None}}
        /\ Keys(b.per_sa_entities) \subseteq labels

\* C1: after processing a stream (no exception having ended the run), the
\* buckets are those of the mount keys of the stream's login events, and each
\* bucket equals the fold of the login events of its key: successCount and
\* failureCount count its successes and its other login events, entityIdSet
\* holds the entity ids of its successes, loginsPerEntity and
\* loginsPerWorkloadLabel count the successes per entity id and per label, and
\* entitiesPerWorkloadLabel[l] holds the entity ids of the successes labelled l.
BucketsAreFoldOfEvents ==
    pc # "crashed" =>
        LET ev == LoginEvents(consumed)
        IN  /\ Keys(mounts) = {ev[i].key : i \in 1..Len(ev)}
            /\ \A key \in Keys(mounts) : IsFoldOf(mounts.map[key], ev, key)

\* A bucket with a failure, a success without entity id and a success with an
\* entity id and a label has been built.
BucketsAreFoldOfEventsWitness ==
    /\ pc = "read"
    /\ \E b \in Buckets :
         /\ b.fail_count >= 1
         /\ b.ok_count > SumValues(b.per_entity_logins)
         /\ Keys(b.per_entity_logins) # {}
         /\ Keys(b.per_sa_entities) # {}

---------------------------------------------------------------------------
(* C2 *)

\* C2: after every line, in every bucket every key of loginsPerEntity is in
\* entityIdSet and successCount is at least the sum of the loginsPerEntity values.
EntityKeysInSetAndSumBounded ==
    \A b \in Buckets :
        /\ Keys(b.per_entity_logins) \subseteq b.entity_ids
        /\ b.ok_count >= SumValues(b.per_entity_logins)

\* A bucket holds counted entities and a success that carried no entity id.
EntityKeysInSetAndSumBoundedWitness ==
    \E b \in Buckets :
        /\ Keys(b.per_entity_logins) # {}
        /\ b.ok_count > SumValues(b.per_entity_logins)

---------------------------------------------------------------------------
(* C3 *)

\* The line has no '{', or its text from the first '{' is not valid JSON.
Unparsable(line) ==
    \/ line.prefix # "brace" /\ line.json = "none"
    \/ line.prefix = "brace"
    \/ line.json = "invalid"

Parsable(line) == ~Unparsable(line)

\* What reading one more line did, the line being the last of consumed'.
LineCountedOnce ==
    consumed' # consumed =>
        LET line == Last(consumed')
        IN  /\ totals'.lines = totals.lines + 1
            /\ IF Unparsable(line)
               THEN /\ totals'.skipped = totals.skipped + 1
                    /\ totals'.parsed = totals.parsed
                    /\ mounts' = mounts
               ELSE /\ totals'.parsed = totals.parsed + 1
                    /\ totals'.skipped = totals.skipped
            /\ (line.prefix = "text" /\ line.json = "object" =>
                    LET o == ProcessLine(mounts, totals, JsonLine(line.entry))
                    IN  mounts' = o.mounts /\ totals' = o.totals)

\* C3: every line increments exactly one of parsed and skipped, so that
\* lines = parsed + skipped after every line; a line without '{' or whose text
\* from the first '{' is not valid JSON increments skipped and leaves the
\* buckets unchanged, so that the buckets are those of the stream without its
\* unparsable lines; a prefixed object is processed as the object alone is.
EveryLineParsedOrSkipped ==
    /\ [](/\ totals.lines = totals.parsed + totals.skipped
          /\ totals.lines = Len(consumed)
          /\ mounts = RunStream(SelectSeq(consumed, Parsable)).mounts)
    /\ [][LineCountedOnce]_vars

\* A login, then an unparsable line, then a prefixed login have been read.
EveryLineParsedOrSkippedWitness ==
    /\ Len(consumed) = 3
    /\ IsLoginLine(consumed[1])
    /\ Unparsable(consumed[2])
    /\ consumed[3].prefix = "text" /\ IsLoginLine(consumed[3])
    /\ totals.skipped = 1 /\ totals.parsed = 2
    /\ \E b \in Buckets : b.ok_count = 2

---------------------------------------------------------------------------
(* C4 *)

\* C4: no line that holds a valid JSON object ends the run, whatever the types
\* of its fields: no iteration of the loop is left by an exception.
NoLineEndsTheRun == pc # "crashed"

---------------------------------------------------------------------------
(* The classifier and the label extractor as functions of their arguments *)

\* a key that the dict does not hold
Absent == [k |-> "absent"]
\* the dict of the keys of f that are not Absent
DictOf(f) == PyDict([key \in {x \in DOMAIN f : f[x] # Absent} |-> f[key]])

FnInit(args) ==
    /\ consumed = <<>>
    /\ mounts = EmptyDict
    /\ totals = NewTotals
    /\ di = 0
    /\ row = NoRow
    /\ printed = <<>>
    /\ report = NoReport
    /\ pc = "call"
    /\ fn_in \in args
    /\ fn_out = None

FnReturn(result) ==
    /\ pc = "call"
    /\ pc' = "return"
    /\ fn_out' = result
    /\ UNCHANGED <<consumed, mounts, totals, di, row, printed, report, fn_in>>

\* is_k8s_login(path, mount_type)
MaxPathLen == 5
PathTokens == {"/", "login", "kubernetes", "openshift", "x", NL}
Paths == UNION {[1..n -> PathTokens] : n \in 0..MaxPathLen}
MountTypes == {None, S("kubernetes"), S("openshift"), S("approle")}

InitLogin ==
    FnInit([path : {None} \cup {PyStr(p) : p \in Paths}, mount_type : MountTypes])
CallIsK8sLogin == FnReturn(is_k8s_login(fn_in.path, fn_in.mount_type))
SpecLogin == InitLogin /\ [][CallIsK8sLogin]_vars

\* status_ok(entry)
Statuses == {Absent, None, PyInt(200), PyInt(500)}
Responses ==
    {Absent, None} \cup {DictOf([status |-> st, http_status |-> h]) : st \in Statuses, h \in Statuses}
Errors == {Absent, None, PyBool(FALSE), EmptyStr, S("permission denied")}
StatusEntries ==
    {DictOf([type |-> t, error |-> e, response |-> r]) :
        t \in {Absent, S("response"), S("request")}, e \in Errors, r \in Responses}

InitStatus == FnInit(StatusEntries)
CallStatusOk == FnReturn(status_ok(fn_in))
SpecStatus == InitStatus /\ [][CallStatusOk]_vars

\* extract_sa_label(entry)
\* the values a metadata key or the display name may hold, v a plain word
TextValues(v) == {Absent, EmptyStr, S(SP), S(v), PyStr(<<SP, v, SP>>)}
Metadatas ==
    {DictOf([service_account_name |-> sa, service_account_namespace |-> n1,
             kubernetes_namespace |-> n2, namespace |-> n3]) :
        sa \in TextValues("svc"), n1 \in TextValues("ns1"),
        n2 \in TextValues("ns2"), n3 \in TextValues("ns3")}
LabelEntries ==
    {DictOf([auth |-> DictOf([metadata |-> md, display_name |-> d])]) :
        md \in Metadatas \cup {Absent, None}, d \in TextValues("web") \cup {None}}

InitLabel == FnInit(LabelEntries)
CallExtractSaLabel == FnReturn(extract_sa_label(fn_in))
SpecLabel == InitLabel /\ [][CallExtractSaLabel]_vars

---------------------------------------------------------------------------
(* C5 *)

EndsWithLogin(p) == Len(p) >= 2 /\ p[Len(p)] = "login" /\ p[Len(p) - 1] = "/"

\* C5: is_k8s_login(path, mount_type) is true exactly when the path without
\* its trailing slashes is non-empty, ends with '/login' and holds one of the
\* keywords 'kubernetes', 'openshift' or the mount type is one of the two; an
\* empty, absent or all-slash path is never a login.
LoginExactlyWhenLoginTail ==
    pc = "return" =>
        (fn_out = PyBool(TRUE)) =
            (/\ fn_in.path # None
             /\ LET p == DropTrailingSlashes(fn_in.path.s)
                IN  /\ p # <<>>
                    /\ EndsWithLogin(p)
                    /\ \/ Contains(p, "kubernetes")
                       \/ Contains(p, "openshift")
                       \/ fn_in.mount_type \in {S("kubernetes"), S("openshift")})

\* The same, for the paths that hold no newline.
LoginExactlyWhenLoginTailOnOneLine ==
    (fn_in.path # None /\ ~Contains(fn_in.path.s, NL)) => LoginExactlyWhenLoginTail

---------------------------------------------------------------------------
(* C6 *)

\* the statuses that the response reports under its two keys
ReportedStatuses(entry) ==
    LET resp == Get(entry, "response")
    IN  IF resp.k # "dict" THEN {}
        ELSE {Get(resp, key) : key \in {"status", "http_status"}} \ {None}

\* C6: status_ok(record) is true exactly when the type is 'response', the
\* error is absent, empty or false, and the response reports no status under
\* status or http_status or reports 200; a response that reports another
\* status under either key is never successful.
StatusOkExactlyWhenNoBadStatus ==
    pc = "return" =>
        (fn_out = PyBool(TRUE)) =
            (/\ Get(fn_in, "type") = S("response")
             /\ Get(fn_in, "error") \in {None, PyBool(FALSE), EmptyStr}
             /\ ReportedStatuses(fn_in) \subseteq {PyInt(200)})

\* The same, for the responses that hold at most one of the two keys.
StatusOkExactlyWhenOneKey ==
    (Get(fn_in, "response").k = "dict"
        => Cardinality(DOMAIN Get(fn_in, "response").o) <= 1)
    => StatusOkExactlyWhenNoBadStatus

---------------------------------------------------------------------------
(* C7 *)

\* the stripped value of a key, <<>> when the key is absent or blank
Stripped(md, key) == IF Get(md, key).k = "str" THEN Strip(Get(md, key).s) ELSE <<>>

\* the first of the three namespace keys that holds a non-blank value
ClaimedNamespace(md) ==
    IF Stripped(md, "service_account_namespace") # <<>>
    THEN Stripped(md, "service_account_namespace")
    ELSE IF Stripped(md, "kubernetes_namespace") # <<>>
    THEN Stripped(md, "kubernetes_namespace")
    ELSE Stripped(md, "namespace")

ClaimedLabel(entry) ==
    LET auth == Get(entry, "auth")
        md   == IF Get(auth, "metadata").k = "dict" THEN Get(auth, "metadata") ELSE EmptyObj
        n    == ClaimedNamespace(md)
        sa   == Stripped(md, "service_account_name")
        d    == Stripped(auth, "display_name")
    IN  IF n # <<>> /\ sa # <<>> THEN PyStr(n \o <<"/">> \o sa)
        ELSE IF sa # <<>> THEN PyStr(<<NO_NS, "/">> \o sa)
        ELSE IF n # <<>> THEN PyStr(n \o <<"/", NO_SA>>)
        ELSE IF d # <<>> THEN PyStr(<<NO_NS, "/">> \o d)
        ELSE None

\* C7: extract_sa_label never raises and returns 'n/s', '(no-ns)/s',
\* 'n/(no-sa)', '(no-ns)/<display_name>' or no label, n being the first
\* non-blank value among service_account_namespace, kubernetes_namespace and
\* namespace, and s the service_account_name.
LabelFromFirstNonBlankNamespace ==
    pc = "return" => fn_out # Raised /\ fn_out = ClaimedLabel(fn_in)

\* The same, when no namespace key holds a blank, non-empty value.
LabelWhenNoBlankNamespace ==
    LET md == Get(Get(fn_in, "auth"), "metadata")
    IN  (md.k = "dict" =>
            \A key \in {"service_account_namespace", "kubernetes_namespace", "namespace"} :
                Get(md, key) # S(SP))
        => LabelFromFirstNonBlankNamespace

---------------------------------------------------------------------------
(* The percentile as a function of the list of counts *)

MaxCounts == 4
CountValues == {1, 2, P95_LOGIN_THRESHOLD}
Repeat(x, n) == [i \in 1..n |-> x]
\* 80 entities with one login and two with ten, the tens enumerated last, first, apart
ScenarioLists ==
    {Repeat(1, 80) \o <<10, 10>>, <<10, 10>> \o Repeat(1, 80), <<10>> \o Repeat(1, 80) \o <<10>>}
\* 31 counts: 0.95 * 30 is the tie 28.5
TieLists == {Repeat(1, 29) \o <<10, 10>>, <<10, 10>> \o Repeat(1, 29)}
CountLists ==
    UNION {[1..n -> CountValues] : n \in 1..MaxCounts} \cup ScenarioLists \cup TieLists

InitP95 == FnInit(CountLists)
\* lines 271-278 on the list counts
CallP95 ==
    FnReturn([counts_sorted |-> Sorted(fn_in),
              idx |-> P95Index(Len(fn_in)),
              p95 |-> P95(fn_in)])
SpecP95 == InitP95 /\ [][CallP95]_vars

---------------------------------------------------------------------------
(* C9 *)

NumberOf(counts, v) == Cardinality({i \in 1..Len(counts) : counts[i] = v})
NumberBelow(counts, v) == Cardinality({i \in 1..Len(counts) : counts[i] < v})
NumberUpTo(counts, v) == Cardinality({i \in 1..Len(counts) : counts[i] <= v})

\* k is round(0.95 * (n - 1)): the integer nearest to it, the even one at a tie
IsRounded95(k, n) ==
    LET d == 100 * k - 95 * (n - 1)
    IN  /\ d \in -50..50
        /\ (d \in {-50, 50} => k % 2 = 0)

\* v is the element at index k (from 0) of the counts in ascending order
IsAtRank(counts, k, v) == NumberBelow(counts, v) <= k /\ k < NumberUpTo(counts, v)

\* C9: for every non-empty list of counts, in whatever order, p95 is the
\* element at index round(0.95 * (n - 1)), within [0, n - 1], of the counts in
\* ascending order; for 80 counts of 1 and two of 10 the index is 77 and p95 is 1.
P95IsNearestRank ==
    pc = "return" =>
        LET n == Len(fn_in)
        IN  /\ fn_out.idx \in 0..(n - 1)
            /\ IsRounded95(fn_out.idx, n)
            /\ IsAtRank(fn_in, fn_out.idx, fn_out.p95)
            /\ (n = 82 /\ NumberOf(fn_in, 1) = 80 /\ NumberOf(fn_in, 10) = 2
                    => fn_out.idx = 77 /\ fn_out.p95 = 1)

\* The scenario list with the two tens enumerated first has been evaluated.
P95IsNearestRankWitness ==
    /\ pc = "return"
    /\ Len(fn_in) = 82 /\ fn_in[1] = 10 /\ fn_in[2] = 10
    /\ fn_out.idx = 77 /\ fn_out.p95 = 1

---------------------------------------------------------------------------
(* The report on the tables of a whole file *)

DiagEntities == 5
\* the i-th entity id
Ent(i) == PyStr(<<"e", ToString(i)>>)

\* c logins of each of the entities number from+1 .. from+k, under label prod/svc-a
RECURSIVE LoginsOf(_, _, _)
LoginsOf(from, k, c) ==
    IF k = 0 THEN <<>>
    ELSE LoginsOf(from, k - 1, c) \o Repeat(JsonLine(OkLogin(A1, P1, Ent(from + k), MD1)), c)

\* what the file holds besides: nothing; a login of entity 1 under another
\* label; a failure and a login on another mount; two logins of one more
\* entity under another label
ExtraLines(extra) ==
    CASE extra = 0 -> <<>>
      [] extra = 1 -> <<JsonLine(OkLogin(A1, P1, Ent(1), MD2))>>
      [] extra = 2 -> <<JsonLine(FailedLogin(A2, P1)), JsonLine(OkLogin(A2, P1, E1, MD1))>>
      [] OTHER -> Repeat(JsonLine(OkLogin(A1, P1, Ent(0), MD2)), 2)

\* A file in which n1 entities log in once, n2 twice and n10 ten times.
FileOf(n1, n2, n10, extra) ==
    LoginsOf(0, n1, 1) \o LoginsOf(n1, n2, 2)
    \o LoginsOf(n1 + n2, n10, P95_LOGIN_THRESHOLD) \o ExtraLines(extra)

\* The loop has read the whole file.
InitDiag ==
    \E n1 \in 0..DiagEntities, n2 \in 0..DiagEntities, n10 \in 0..2, extra \in 0..3 :
        /\ n1 + n2 + n10 \in 1..DiagEntities
        /\ consumed = FileOf(n1, n2, n10, extra)
        /\ mounts = RunStream(FileOf(n1, n2, n10, extra)).mounts
        /\ totals = RunStream(FileOf(n1, n2, n10, extra)).totals
        /\ pc = "read"
        /\ di = 0
        /\ row = NoRow
        /\ printed = <<>>
        /\ report = NoReport
        /\ fn_in = None
        /\ fn_out = None

NextDiag == Report

SpecDiag == InitDiag /\ [][NextDiag]_vars

---------------------------------------------------------------------------
(* C8 *)

\* the entities of label sa in bucket b that have exactly one recorded login
SingletonEntities(b, sa) ==
    {e \in b.per_sa_entities.map[sa] : At(b.per_entity_logins, e, 0) = 1}

\* C8: for every diagnostic row computed, singletonRatio is singletonCount /
\* entityCount, entityCount being the size of entitiesPerWorkloadLabel[label]
\* and singletonCount the number of its entities with exactly one login; it
\* lies in [0, 1], and it is 1 exactly when every entity of the label has
\* exactly one recorded login.
SingletonRatioBounded ==
    row.computed =>
        LET b    == mounts.map[row.accessor]
            ents == b.per_sa_entities.map[row.sa]
            q    == row.singleton_ratio
        IN  /\ q.den = Cardinality(ents)
            /\ q.num = Cardinality(SingletonEntities(b, row.sa))
            /\ q.den > 0
            /\ 0 <= q.num /\ q.num <= q.den
            /\ (q.num = q.den) = (\A e \in ents : At(b.per_entity_logins, e, 0) = 1)

\* A row whose ratio is 4/5 has been computed.
SingletonRatioBoundedWitness ==
    /\ row.computed
    /\ row.singleton_ratio = [num |-> 4, den |-> 5]

---------------------------------------------------------------------------
(* C10 *)

\* the value at index round(0.95 * (n - 1)) of the ascending login counts of
\* the entities of label sa in bucket b
RankedP95(b, sa) ==
    LET ents == b.per_sa_entities.map[sa]
        n    == Cardinality(ents)
        cnt(e) == At(b.per_entity_logins, e, 0)
        k    == CHOOSE k \in 0..(n - 1) : IsRounded95(k, n)
    IN  CHOOSE v \in {cnt(e) : e \in ents} :
            /\ Cardinality({e \in ents : cnt(e) < v}) <= k
            /\ k < Cardinality({e \in ents : cnt(e) <= v})

\* singletonRatio >= 0.80, that is singletonCount / entityCount >= 4/5
ClaimedSingletonHeavy(b, sa) ==
    5 * Cardinality(SingletonEntities(b, sa)) >= 4 * Cardinality(b.per_sa_entities.map[sa])

ClaimedFlags(b, sa) ==
    (IF ClaimedSingletonHeavy(b, sa) THEN {"SINGLETON_HEAVY"} ELSE {})
    \cup (IF RankedP95(b, sa) >= 10 THEN {"HIGH_P95"} ELSE {})

\* the printed rows of a pair
RowsOf(pair) ==
    {j \in 1..Len(printed) : printed[j].accessor = pair[1] /\ printed[j].sa = pair[2]}

FlagsOfRow(r) == {r.offenders[i] : i \in 1..Len(r.offenders)}

\* C10: for every (mount, label) pair diagnosed, which has at least one entity,
\* SINGLETON_HEAVY is set exactly when singletonRatio >= 0.80 and HIGH_P95
\* exactly when p95 >= 10, each whatever the other; the pair has a row in the
\* anomaly output exactly when one of the two is set.
FlagsExactlyAtThresholds ==
    \A i \in 1..di :
        LET pair == DiagPairs(mounts)[i]
            b    == mounts.map[pair[1]]
        IN  /\ b.per_sa_entities.map[pair[2]] # {}
            /\ (RowsOf(pair) # {}) = (ClaimedFlags(b, pair[2]) # {})
            /\ Cardinality(RowsOf(pair)) <= 1
            /\ \A j \in RowsOf(pair) : FlagsOfRow(printed[j]) = ClaimedFlags(b, pair[2])

\* The report is over with a row that carries both flags and a pair without
\* a row.
FlagsExactlyAtThresholdsWitness ==
    /\ pc = "done"
    /\ \E j \in 1..Len(printed) : FlagsOfRow(printed[j]) = {"SINGLETON_HEAVY", "HIGH_P95"}
    /\ Len(printed) < di

\* A row carries HIGH_P95 alone, below the singleton threshold.
HighP95AloneReached ==
    \E j \in 1..Len(printed) : FlagsOfRow(printed[j]) = {"HIGH_P95"}

\* A row carries SINGLETON_HEAVY alone.
SingletonHeavyAloneReached ==
    \E j \in 1..Len(printed) : FlagsOfRow(printed[j]) = {"SINGLETON_HEAVY"}

---------------------------------------------------------------------------
(* C11 *)

\* the labels of bucket b that have successful logins but no entity
LabelsWithoutEntity(b) ==
    {sa \in Keys(b.per_sa_logins) : At(b.per_sa_entities, sa, {}) = {}}

\* C11: a workload label with successful logins but no entity id never gets a
\* diagnostic row, and no computation of the report divides by zero or
\* indexes an empty list: every diagnostic row computed has at least one
\* count and an index inside the list, and every summary row has both its
\* ratios, 0 where the denominator is 0.
ZeroEntityGuard ==
    /\ \A a \in Keys(mounts) : \A sa \in LabelsWithoutEntity(mounts.map[a]) :
          /\ ~(row.computed /\ row.accessor = a /\ row.sa = sa)
          /\ \A j \in 1..Len(printed) : ~(printed[j].accessor = a /\ printed[j].sa = sa)
    /\ row.computed =>
          /\ Len(row.counts) > 0
          /\ row.singleton_ratio.den > 0
          /\ row.idx \in 0..(Len(row.counts_sorted) - 1)
    /\ \A i \in 1..Len(report.rows) :
          LET r == report.rows[i]
          IN  /\ r.ent_ratio # Raised
              /\ r.entities_per_sa # Raised
              /\ r.ents = 0 => r.ent_ratio = Tenths(0)
              /\ r.sa_cnt = 0 => r.entities_per_sa = Tenths(0)
    /\ pc \in {"entities", "accounts", "diag", "done"} => Len(report.rows) = Len(mounts.ord)

\* The report is over for a file in which a label has successful logins but
\* no entity, on a mount without any entity.
ZeroEntityGuardWitness ==
    /\ pc = "done"
    /\ \E a \in Keys(mounts) :
          /\ LabelsWithoutEntity(mounts.map[a]) # {}
          /\ mounts.map[a].entity_ids = {}
          /\ mounts.map[a].ok_count > 0

---------------------------------------------------------------------------
(* The read loop as a function of the sequence of lines *)

MaxEvents == 3

\* login lines of two mounts, two entities and two labels, and a line that is skipped
EventLines ==
    {JsonLine(OkLogin(A1, P1, E1, MD1)),
     JsonLine(OkLogin(A1, P1, None, MD1)),
     JsonLine(OkLogin(A1, P2, E2, MD1)),
     JsonLine(OkLogin(A2, P1, E1, MD2)),
     JsonLine(FailedLogin(A1, P1)),
     NotJsonLine}

InitAggregate == FnInit(UNION {[1..n -> EventLines] : n \in 0..MaxEvents})
\* the loop of lines 132-184 over the whole sequence
CallAggregate == FnReturn(RunStream(fn_in))
SpecAggregate == InitAggregate /\ [][CallAggregate]_vars

\* What the claims compare of a table of buckets: the counts and sets of every
\* mount key, without the order of insertion and without the display label.
TableOf(m) ==
    [a \in Keys(m) |->
        [ok_count |-> m.map[a].ok_count,
         fail_count |-> m.map[a].fail_count,
         entity_ids |-> m.map[a].entity_ids,
         per_entity_logins |-> m.map[a].per_entity_logins.map,
         per_sa_logins |-> m.map[a].per_sa_logins.map,
         per_sa_entities |-> m.map[a].per_sa_entities.map]]

---------------------------------------------------------------------------
(* C12 *)

\* The merge of two tables as the specification defines it: counters summed,
\* sets united, per-key counts summed, key by key.
RECURSIVE MergeCounts(_, _, _)
MergeCounts(c1, c2, keys) ==
    IF keys = <<>> THEN c1
    ELSE LET c == MergeCounts(c1, c2, Front(keys))
         IN  Put(c, Last(keys), At(c, Last(keys), 0) + c2.map[Last(keys)])

RECURSIVE MergeSets(_, _, _)
MergeSets(d1, d2, keys) ==
    IF keys = <<>> THEN d1
    ELSE LET d == MergeSets(d1, d2, Front(keys))
         IN  Put(d, Last(keys), At(d, Last(keys), {}) \cup d2.map[Last(keys)])

MergeBuckets(b1, b2) ==
    [display_mount |-> IF b1.display_mount # None THEN b1.display_mount ELSE b2.display_mount,
     ok_count |-> b1.ok_count + b2.ok_count,
     fail_count |-> b1.fail_count + b2.fail_count,
     entity_ids |-> b1.entity_ids \cup b2.entity_ids,
     per_entity_logins |-> MergeCounts(b1.per_entity_logins, b2.per_entity_logins,
                                       b2.per_entity_logins.ord),
     per_sa_logins |-> MergeCounts(b1.per_sa_logins, b2.per_sa_logins, b2.per_sa_logins.ord),
     per_sa_entities |-> MergeSets(b1.per_sa_entities, b2.per_sa_entities,
                                   b2.per_sa_entities.ord)]

RECURSIVE MergeTablesOver(_, _, _)
MergeTablesOver(m1, m2, keys) ==
    IF keys = <<>> THEN m1
    ELSE LET m == MergeTablesOver(m1, m2, Front(keys))
         IN  Put(m, Last(keys), MergeBuckets(At(m, Last(keys), NewBucket), m2.map[Last(keys)]))

MergeTables(m1, m2) == MergeTablesOver(m1, m2, m2.ord)

\* the lines that the assignment f puts in part p, in their order
RECURSIVE PartOf(_, _, _, _)
PartOf(lines, f, p, n) ==
    IF n = 0 THEN <<>>
    ELSE PartOf(lines, f, p, n - 1) \o (IF f[n] = p THEN <<lines[n]>> ELSE <<>>)

\* C12: for every sequence of lines and every partition of it into
\* sub-sequences, aggregating each part on its own and merging the tables key
\* by key, in any merge order, gives for every mount key the counts and sets
\* of the one-pass aggregation of the whole sequence.
MergeOfPartsIsOnePass ==
    pc = "return" =>
        \A f \in [1..Len(fn_in) -> 1..3] :
            LET t1 == RunStream(PartOf(fn_in, f, 1, Len(fn_in))).mounts
                t2 == RunStream(PartOf(fn_in, f, 2, Len(fn_in))).mounts
                t3 == RunStream(PartOf(fn_in, f, 3, Len(fn_in))).mounts
            IN  /\ TableOf(MergeTables(MergeTables(t1, t2), t3)) = TableOf(fn_out.mounts)
                /\ TableOf(MergeTables(t1, MergeTables(t2, t3))) = TableOf(fn_out.mounts)
                /\ TableOf(MergeTables(t2, t1)) = TableOf(MergeTables(t1, t2))

\* Three lines were aggregated that can be split into three parts about the
\* same mount, entity and label.
MergeOfPartsIsOnePassWitness ==
    /\ pc = "return"
    /\ Len(fn_in) >= 3
    /\ \E a \in Keys(fn_out.mounts) :
          /\ fn_out.mounts.map[a].ok_count >= 2
          /\ fn_out.mounts.map[a].fail_count >= 1
          /\ \E e \in Keys(fn_out.mounts.map[a].per_entity_logins) :
                fn_out.mounts.map[a].per_entity_logins.map[e] >= 2

---------------------------------------------------------------------------
(* C20 *)

\* the sequence lines in the order given by the permutation q of its indices
Permuted(lines, q) == [i \in 1..Len(lines) |-> lines[q[i]]]

\* C20: the same multiset of login events, processed in any order, ends with
\* the same counts and sets for every mount key.
AnyOrderSameTables ==
    pc = "return" =>
        \A q \in Orders(1..Len(fn_in)) :
            TableOf(RunStream(Permuted(fn_in, q)).mounts) = TableOf(fn_out.mounts)

\* Three different lines were aggregated, about two entities on one mount.
AnyOrderSameTablesWitness ==
    /\ pc = "return"
    /\ Len(fn_in) >= 3
    /\ Cardinality({fn_in[i] : i \in 1..Len(fn_in)}) >= 3
    /\ \E a \in Keys(fn_out.mounts) :
          /\ Cardinality(fn_out.mounts.map[a].entity_ids) >= 2
          /\ \E sa \in Keys(fn_out.mounts.map[a].per_sa_entities) :
                Cardinality(fn_out.mounts.map[a].per_sa_entities.map[sa]) >= 2

---------------------------------------------------------------------------
(* C13 *)

\* the least element of a non-empty set of numbers
MinOf(I) == CHOOSE i \in I : \A j \in I : i <= j

\* the successful login events among the lines read, by line number
SuccessLines == {i \in 1..Len(consumed) : IsLoginLine(consumed[i]) /\ EventOf(consumed[i]).success}

\* the line on which a mount key, an entity id, a (display label, workload
\* label) pair is first seen; past the end of the stream when it never is
FirstSeenMount(a) ==
    MinOf({i \in 1..Len(consumed) : IsLoginLine(consumed[i]) /\ EventOf(consumed[i]).key = a}
          \cup {Len(consumed) + 1})
FirstSeenEntity(e) ==
    MinOf({i \in SuccessLines : EventOf(consumed[i]).eid = e} \cup {Len(consumed) + 1})
FirstSeenLabel(mlabel, sa) ==
    MinOf({i \in SuccessLines :
              /\ EventOf(consumed[i]).label = sa
              /\ mounts.map[KeyOf(mounts, EventOf(consumed[i]).key)].display_mount = mlabel}
          \cup {Len(consumed) + 1})

\* the mount keys by descending success count, equal counts by first line seen
MountsInClaimedOrder ==
    CHOOSE s \in Orders(Keys(mounts)) :
        \A i, j \in 1..Len(s) :
            i < j => \/ mounts.map[s[i]].ok_count > mounts.map[s[j]].ok_count
                     \/ /\ mounts.map[s[i]].ok_count = mounts.map[s[j]].ok_count
                        /\ FirstSeenMount(s[i]) < FirstSeenMount(s[j])

\* C13: the mount summaries are in descending order of success count, the top
\* entities in descending order of login count, the top workload labels in
\* descending order of distinct-entity count, and entries of equal count are in
\* the order in which their keys were first seen in the input stream.
OutputsDescendingTiesFirstSeen ==
    pc = "done" =>
        /\ report.rows =
              [i \in 1..Len(mounts.ord) |-> SummaryRow(mounts.map[MountsInClaimedOrder[i]])]
        /\ \A i, j \in 1..Len(report.top_entities) :
              LET x == report.top_entities[i]
                  y == report.top_entities[j]
              IN  i < j => \/ x.c > y.c
                           \/ x.c = y.c /\ FirstSeenEntity(x.eid) < FirstSeenEntity(y.eid)
        /\ \A i, j \in 1..Len(report.top_sa) :
              LET x == report.top_sa[i]
                  y == report.top_sa[j]
              IN  i < j => \/ x.ent_n > y.ent_n
                           \/ /\ x.ent_n = y.ent_n
                              /\ FirstSeenLabel(x.mount_label, x.sa_label)
                                   < FirstSeenLabel(y.mount_label, y.sa_label)

\* The same for the mount summaries alone.
SummariesDescendingTiesFirstSeen ==
    pc = "done" =>
        report.rows =
            [i \in 1..Len(mounts.ord) |-> SummaryRow(mounts.map[MountsInClaimedOrder[i]])]


---------------------------------------------------------------------------
(* Sections 2 and 3 on files that reach the thresholds and the cap *)

\* how far on either side of a threshold the files go
TopMargin == 1
\* the number of logins of the chatty entity that are made on the second mount
SplitChoices == {0, 1, ENTITY_LOGIN_THRESHOLD \div 2}

\* metadata naming the service account svc<i>
SvcMD(i) == PyDict([service_account_name |-> PyStr(<<"svc", ToString(i)>>)])

\* A file in which TOP_N + 1 entities log in once each under a label of their
\* own, then k entities once each under one label, then one entity n times,
\* a of them on a second mount.
TopFile(n, a, k) ==
    LET L == TOP_N + 1
    IN  SubSeq([i \in 1..(L + k + n) |->
                  IF i <= L THEN JsonLine(OkLogin(A1, P1, Ent(k + i), SvcMD(i)))
                  ELSE IF i <= L + k THEN JsonLine(OkLogin(A1, P1, Ent(i - L), MD1))
                  ELSE IF i <= L + k + a THEN JsonLine(OkLogin(A2, P1, Ent(0), MD2))
                  ELSE JsonLine(OkLogin(A1, P1, Ent(0), MD2))],
               1, L + k + n)

\* The loop has read the whole file.
InitTop ==
    \E n \in (ENTITY_LOGIN_THRESHOLD - TopMargin)..(ENTITY_LOGIN_THRESHOLD + TopMargin),
       k \in (SA_ENTITY_THRESHOLD - TopMargin)..(SA_ENTITY_THRESHOLD + TopMargin),
       a \in SplitChoices :
        /\ consumed = TopFile(n, a, k)
        /\ mounts = RunStream(TopFile(n, a, k)).mounts
        /\ totals = RunStream(TopFile(n, a, k)).totals
        /\ pc = "read"
        /\ di = 0
        /\ row = NoRow
        /\ printed = <<>>
        /\ report = NoReport
        /\ fn_in = None
        /\ fn_out = None

\* the report up to the end of section 3
NextTop == EndOfStream \/ Summarise \/ TopEntities \/ TopServiceAccounts

SpecTop == InitTop /\ [][NextTop]_vars

\* the logins of entity eid added up over the buckets
EntityTotal(eid) ==
    LET sum[i \in 0..Len(mounts.ord)] ==
            IF i = 0 THEN 0
            ELSE sum[i - 1] + At(mounts.map[mounts.ord[i]].per_entity_logins, eid, 0)
    IN  sum[Len(mounts.ord)]

\* the entities seen under label sa on the mounts displayed as mlabel
LabelEntities(mlabel, sa) ==
    UNION {At(mounts.map[a].per_sa_entities, sa, {}) :
             a \in {x \in Keys(mounts) : mounts.map[x].display_mount = mlabel}}

\* every entity id and every (mount label, label) pair of the buckets
AllEntityIds == UNION {Keys(mounts.map[a].per_entity_logins) : a \in Keys(mounts)}
AllLabelKeys ==
    UNION {{PyTuple(mounts.map[a].display_mount, sa) :
              sa \in Keys(mounts.map[a].per_sa_entities)} : a \in Keys(mounts)}

---------------------------------------------------------------------------
(* C14 *)

\* C14: an entity printed in section 2 is flagged exactly when its logins,
\* added up over all the mount buckets, are at least 200, and a label printed
\* in section 3 is flagged exactly when its distinct entities are at least 50;
\* neither flag depends on the other or on the flags of section 4.
TopFlagsExactlyAtThresholds ==
    /\ pc \in {"accounts", "diag"} =>
         \A i \in 1..Len(report.top_entities) :
            LET r == report.top_entities[i]
            IN  /\ r.c = EntityTotal(r.eid)
                /\ r.flag <=> EntityTotal(r.eid) >= 200
    /\ pc = "diag" =>
         \A i \in 1..Len(report.top_sa) :
            LET r == report.top_sa[i]
                n == Cardinality(LabelEntities(r.mount_label, r.sa_label))
            IN  /\ r.ent_n = n
                /\ r.flag <=> n >= 50

\* an entity whose 200 logins are spread over two mounts is flagged while the
\* only label of 49 entities is not
TopFlagsExactlyAtThresholdsWitness ==
    /\ pc = "diag"
    /\ Len(mounts.ord) = 2
    /\ \E i \in 1..Len(report.top_entities) :
          /\ report.top_entities[i].c = 200
          /\ report.top_entities[i].flag
          /\ \A a \in Keys(mounts) :
                At(mounts.map[a].per_entity_logins, report.top_entities[i].eid, 0) < 200
    /\ \E i \in 1..Len(report.top_sa) :
          /\ report.top_sa[i].ent_n = 49
          /\ ~report.top_sa[i].flag
    /\ \A i \in 1..Len(report.top_sa) : ~report.top_sa[i].flag

\* a label of exactly 50 entities is flagged while no entity is
ChurnAloneReached ==
    /\ pc = "diag"
    /\ \E i \in 1..Len(report.top_sa) :
          report.top_sa[i].ent_n = 50 /\ report.top_sa[i].flag
    /\ \A i \in 1..Len(report.top_entities) : ~report.top_entities[i].flag

---------------------------------------------------------------------------
(* C17 *)

\* C17: each of the two ranked lists holds at most 15 entries, and no key
\* left out of a list has a count above that of an entry kept in it (logins
\* for the entities, distinct entities for the labels).
RankedListsCappedAndTopmost ==
    /\ pc \in {"accounts", "diag"} =>
         /\ Len(report.top_entities) <= 15
         /\ \A i \in 1..Len(report.top_entities) :
               report.top_entities[i].eid \in AllEntityIds
         /\ \A eid \in AllEntityIds :
               (\A i \in 1..Len(report.top_entities) : report.top_entities[i].eid # eid)
               => \A i \in 1..Len(report.top_entities) :
                     EntityTotal(eid) <= EntityTotal(report.top_entities[i].eid)
    /\ pc = "diag" =>
         LET KeyAt(i) == PyTuple(report.top_sa[i].mount_label, report.top_sa[i].sa_label)
         IN  /\ Len(report.top_sa) <= 15
             /\ \A i \in 1..Len(report.top_sa) : KeyAt(i) \in AllLabelKeys
             /\ \A key \in AllLabelKeys :
                   (\A i \in 1..Len(report.top_sa) : KeyAt(i) # key)
                   => \A i \in 1..Len(report.top_sa) :
                         Cardinality(LabelEntities(key.v[1], key.v[2]))
                           <= Cardinality(LabelEntities(KeyAt(i).v[1], KeyAt(i).v[2]))

\* both lists are full and leave keys out, among them keys that entered
\* their dict before the one ranked first
RankedListsCappedAndTopmostWitness ==
    /\ pc = "diag"
    /\ Len(report.top_entities) = 15
    /\ Len(report.top_sa) = 15
    /\ Cardinality(AllEntityIds) > 15
    /\ Cardinality(AllLabelKeys) > 15
    /\ report.top_entities[1].eid # report.global_entity_counts.ord[1]
    /\ report.top_entities[1].c > report.top_entities[15].c
    /\ report.top_sa[1].ent_n > report.top_sa[15].ent_n


---------------------------------------------------------------------------
(* C18 *)

\* the aggregates of the login events ev, with the display labels of m
AggregatesOf(ev, m) ==
    LET succ == {i \in 1..Len(ev) : ev[i].success}
    IN  [total_logins |-> Cardinality(succ),
         total_entities |-> Cardinality({ev[i].eid : i \in {j \in succ : ev[j].eid # None}}),
         total_clusters |-> Cardinality({ev[i].key : i \in 1..Len(ev)}),
         total_service_accounts |->
             Cardinality({<<m.map[ev[i].key].display_mount, ev[i].label>> :
                            i \in {j \in succ : ev[j].eid # None /\ ev[j].label # None}})]

\* the successes of the rows of section 1 added up
RowsOk(rows) ==
    LET sum[i \in 0..Len(rows)] == IF i = 0 THEN 0 ELSE sum[i - 1] + rows[i].ok
    IN  sum[Len(rows)]

\* every state of the report has a next step: sections 1 to 3 wait for
\* nothing, and section 4 either has a pair left or returns
ReportGoesOn == pc = "diag" => di \in 0..Len(DiagPairs(mounts))

\* the value returned is that of the lines read
ReportsLinesRead ==
    pc = "done" =>
        /\ report.result = AggregatesOf(LoginEvents(consumed), mounts)
        /\ Len(report.rows) = report.result.total_clusters
        /\ RowsOk(report.rows) = report.result.total_logins

\* no section of the report has raised: an exception of the read loop leaves
\* the report untouched, one of section 1 leaves its rows
ReportRaisesNothing == pc = "crashed" => report = NoReport

\* C18: wherever the stream ends, after no line or after any number of lines
\* read without an exception, the report runs to its end without error and
\* returns the aggregates of the lines read: successful logins, distinct
\* entities, mounts and (mount, label) pairs with an entity.
TruncatedStreamReported == ReportGoesOn /\ ReportRaisesNothing /\ ReportsLinesRead

\* the report has ended after a stream cut short of MaxLines lines in which an
\* entity logged in on two mounts
TruncatedStreamReportedWitness ==
    /\ pc = "done"
    /\ Len(consumed) \in 1..(MaxLines - 1)
    /\ report.result.total_clusters = 2
    /\ report.result.total_service_accounts >= 1
    /\ \E a1 \in Keys(mounts), a2 \in Keys(mounts) :
          a1 # a2 /\ mounts.map[a1].entity_ids \cap mounts.map[a2].entity_ids # {}

\* the report has ended on the empty stream
EmptyStreamReported ==
    /\ pc = "done"
    /\ consumed = <<>>
    /\ report.result = [total_logins |-> 0, total_entities |-> 0,
                        total_clusters |-> 0, total_service_accounts |-> 0]


---------------------------------------------------------------------------
(* C16 *)

\* The summary of bucket b with labels distinct workload labels, its ratios
\* 0 on a zero denominator and shown to one decimal.
SummaryWith(b, labels) ==
    LET ents == Cardinality(b.entity_ids)
    IN  [display_mount |-> b.display_mount,
         ok |-> b.ok_count,
         fail_count |-> b.fail_count,
         ents |-> ents,
         sa_cnt |-> labels,
         ent_ratio |-> Round1(IF ents = 0 THEN Zero ELSE Quotient(b.ok_count, ents)),
         entities_per_sa |-> Round1(IF labels = 0 THEN Zero ELSE Quotient(ents, labels))]

\* the rows of section 1 are the summaries of the buckets
RowsAre(Labels(_)) ==
    /\ Len(report.rows) = Len(mounts.ord)
    /\ \A key \in Keys(mounts) :
          \E i \in 1..Len(report.rows) :
             report.rows[i] = SummaryWith(mounts.map[key], Labels(mounts.map[key]))

\* the labels recorded on the successful logins of the bucket's mount
LabelsRecorded(b) == Cardinality(Keys(b.per_sa_logins))
\* the labels under which an entity id was recorded
LabelsWithEntity(b) == Cardinality(Keys(b.per_sa_entities))

\* C16: in every mount summary, distinct entities is the size of the entity
\* set, distinct workload labels is the number of labels recorded on the
\* successful logins of the mount, and the two ratios are successes over
\* entities and entities over labels, 0 when the denominator is 0.
SummaryCountsLabelsRecorded ==
    pc \in {"entities", "accounts", "diag", "done"} => RowsAre(LabelsRecorded)

\* the same with the labels that have at least one entity id
SummaryCountsLabelsWithEntity ==
    pc \in {"entities", "accounts", "diag", "done"} => RowsAre(LabelsWithEntity)

\* a summary whose mount has a label recorded without any entity id
LabelWithoutEntitySummarised ==
    /\ pc = "entities"
    /\ \E key \in Keys(mounts) : LabelsWithoutEntity(mounts.map[key]) # {}


---------------------------------------------------------------------------
(* Opening the file: the plain path and the gzip path *)

MaxRawLines == 3

\* U+FFFD, which a decoder with errors='replace' writes for each invalid byte
Replacement == "\\ufffd"

\* A line of the file as bytes: whether the bytes are valid UTF-8, and the
\* text they decode to when each invalid byte is replaced.
RawLine(valid, text) == [valid |-> valid, text |-> text]
RawLines ==
    {RawLine(TRUE, JsonLine(OkLogin(A1, P1, Ent(1), MD1))),
     RawLine(TRUE, JsonLine(FailedLogin(A1, P1))),
     RawLine(FALSE, JsonLine(OkLogin(A1, P1, PyStr(<<"e", Replacement>>), MD1))),
     RawLine(FALSE, NotJsonLine)}

\* the decoding of the bytes under errors='replace' and under errors='strict'
DecodeReplace(raw) == raw.text
DecodeStrict(raw) == IF raw.valid THEN raw.text ELSE Raised

\* log_file.endswith('.gz') and the lines of the file
InitOpen ==
    /\ fn_in \in {[gz |-> g, file |-> f] :
                    g \in BOOLEAN, f \in UNION {[1..n -> RawLines] : n \in 0..MaxRawLines}}
    /\ consumed = <<>>
    /\ mounts = EmptyDict
    /\ totals = NewTotals
    /\ pc = "read"
    /\ di = 0
    /\ row = NoRow
    /\ printed = <<>>
    /\ report = NoReport
    /\ fn_out = None

\* for raw in f: the next line is handed to the loop.  The gzip path decodes
\* with errors='replace' (lines 126-130); the plain path is open(log_file, 'r')
\* (line 132), which decodes strictly.
ReadRaw ==
    /\ pc = "read"
    /\ Len(consumed) < Len(fn_in.file)
    /\ LET raw  == fn_in.file[Len(consumed) + 1]
           line == IF fn_in.gz THEN DecodeReplace(raw) ELSE DecodeStrict(raw)
       IN  /\ line # Raised
           /\ LET o == ProcessLine(mounts, totals, line)
              IN  /\ consumed' = Append(consumed, line)
                  /\ mounts' = o.mounts
                  /\ totals' = o.totals
                  /\ pc' = IF o.crashed THEN "crashed" ELSE "read"
    /\ UNCHANGED <<di, row, printed, report, fn_in, fn_out>>

\* The plain path decodes the file a block at a time, before it splits the
\* block into lines: UnicodeDecodeError leaves `for raw in f` (line 133) when
\* the block being decoded holds an invalid byte, on the next line or, the
\* block reaching further, on a later one.
DecodeError ==
    /\ pc = "read"
    /\ ~fn_in.gz
    /\ \E j \in (Len(consumed) + 1)..Len(fn_in.file) : DecodeStrict(fn_in.file[j]) = Raised
    /\ pc' = "crashed"
    /\ UNCHANGED <<consumed, mounts, totals, di, row, printed, report, fn_in, fn_out>>

\* the file is exhausted
EndOfFile ==
    /\ Len(consumed) = Len(fn_in.file)
    /\ EndOfStream

NextOpen == ReadRaw \/ DecodeError \/ EndOfFile

SpecOpen == InitOpen /\ [][NextOpen]_vars

---------------------------------------------------------------------------
(* C15 *)

\* the lines of the file, each invalid byte replaced
DecodedFile == [i \in 1..Len(fn_in.file) |-> DecodeReplace(fn_in.file[i])]

\* the run has not ended on an exception and, the file read, has the counters
\* and the tables of the decoded lines
EndsAsDecoded ==
    /\ pc # "crashed"
    /\ pc = "summary" =>
          /\ totals = RunStream(DecodedFile).totals
          /\ mounts = RunStream(DecodedFile).mounts

\* C15: for the same bytes the plain path and the gzip path end with the same
\* lines, parsed and skipped counters and the same bucket tables, those of
\* the lines decoded with replacement; a line that is not valid UTF-8 never
\* ends the run on either path.
BothPathsDecodeWithReplacement == EndsAsDecoded

\* the same for the gzip path alone
GzipPathDecodesWithReplacement == fn_in.gz => EndsAsDecoded

\* the gzip path has read a file that holds an invalid line
InvalidLineReadThroughGzip ==
    /\ pc = "summary"
    /\ fn_in.gz
    /\ \E j \in 1..Len(fn_in.file) : ~fn_in.file[j].valid /\ fn_in.file[j].text # NotJsonLine
    /\ totals.k8s_ok >= 1


---------------------------------------------------------------------------
(* The thresholds a run starts with *)

\* the module constants as the source defines them (lines 25-29), the
\* singleton ratio in hundredths
DefaultConfig ==
    [ENTITY_LOGIN_THRESHOLD |-> ENTITY_LOGIN_THRESHOLD,
     SA_ENTITY_THRESHOLD |-> SA_ENTITY_THRESHOLD,
     SINGLETON_RATIO_THRESHOLD |-> SingletonRatioNum,
     P95_LOGIN_THRESHOLD |-> P95_LOGIN_THRESHOLD,
     TOP_N |-> TOP_N]

\* the defaults, and the defaults with one constant set to a negative value
Configs ==
    {DefaultConfig} \cup
    {[DefaultConfig EXCEPT ![f] = -1] : f \in DOMAIN DefaultConfig}

\* __main__ (lines 344-357) parses the path of the log and calls the analysis;
\* nothing reads the constants before the loop starts.
InitConfig ==
    /\ fn_in \in Configs
    /\ consumed = <<>>
    /\ mounts = EmptyDict
    /\ totals = NewTotals
    /\ pc = "read"
    /\ di = 0
    /\ row = NoRow
    /\ printed = <<>>
    /\ report = NoReport
    /\ fn_out = None

\* the read loop, which consults no threshold, up to the end of the file
NextConfig == ReadLine \/ EndOfStream

SpecConfig == InitConfig /\ [][NextConfig]_vars

---------------------------------------------------------------------------
(* C19 *)

\* a threshold or the cap is negative
InvalidConfig(c) == \E f \in DOMAIN c : c[f] < 0

\* C19: with an invalid threshold the run fails with a configuration error
\* before the first line is read (no line is read and no report is begun),
\* and no other error ends a run.
InvalidConfigFailsBeforeReading ==
    /\ InvalidConfig(fn_in) => consumed = <<>> /\ pc # "summary"
    /\ pc = "crashed" => InvalidConfig(fn_in)

\* a whole file has been read under a negative threshold
ReadUnderInvalidConfig ==
    /\ pc = "summary"
    /\ InvalidConfig(fn_in)
    /\ Len(consumed) = MaxLines
    /\ totals.k8s_ok >= 1


---------------------------------------------------------------------------
(* C21 *)

\* nothing of the report exists while lines are read
NothingComputedWhileReading ==
    pc = "read" => report = NoReport /\ row = NoRow /\ printed = <<>> /\ di = 0

\* C21: no ratio, percentile, ranking or flag is computed before the last
\* line has been consumed: while the loop reads nothing of the report exists,
\* and once the report has begun no line is read and no bucket written.
PostPassAfterStream ==
    /\ []NothingComputedWhileReading
    /\ [][pc # "read" => (pc' # "read" /\ consumed' = consumed)]_vars

\* the four sections have run after a stream of several lines
PostPassAfterStreamWitness ==
    /\ pc = "done"
    /\ Len(consumed) >= 2
    /\ report.rows # <<>>
    /\ report.top_entities # <<>>
    /\ report.top_sa # <<>>
    /\ printed # <<>>

---------------------------------------------------------------------------
(* C22 *)

\* C22: the report is read-only: from the mount summaries to the value
\* returned, no step changes a bucket's display label, counters, sets or
\* per-key counts, adds a bucket or a key, or changes the totals.
PostPassReadOnly ==
    [][(pc # "read" /\ pc # "crashed") => (mounts' = mounts /\ totals' = totals)]_vars

\* the report has ended over two buckets of one display label that share a
\* workload label and hold different entities
PostPassReadOnlyWitness ==
    /\ pc = "done"
    /\ \E a1 \in Keys(mounts), a2 \in Keys(mounts) :
          /\ a1 # a2
          /\ mounts.map[a1].display_mount = mounts.map[a2].display_mount
          /\ \E sa \in Keys(mounts.map[a1].per_sa_entities) :
                /\ Has(mounts.map[a2].per_sa_entities, sa)
                /\ mounts.map[a1].per_sa_entities.map[sa]
                     # mounts.map[a2].per_sa_entities.map[sa]


---------------------------------------------------------------------------
(* C23 *)

\* the request of a login line and its path, trailing slashes removed
RequestOf(line) == Or(Get(line.entry, "request"), EmptyObj)
PathOf(line) == norm_path(GetD(RequestOf(line), "path", EmptyStr))

\* the mount path of a login line: its path up to the last '/login'
MountPathOf(line) == PyStr(RSplitLogin(PathOf(line).s))

\* the positions in the lines read of the login records of mount key a
LoginsOfKey(a) ==
    {i \in 1..Len(consumed) :
        IsLoginLine(consumed[i]) /\ EventOf(consumed[i]).key = a}

\* the label of every bucket is the mount path of the first login record of
\* its key ('(unknown-mount)' for an empty mount path)
LabelIsFirstMountPath ==
    \A a \in Keys(mounts) :
        /\ LoginsOfKey(a) # {}
        /\ LET first == MountPathOf(consumed[MinOf(LoginsOfKey(a))])
           IN  mounts.map[a].display_mount
                 = IF first = EmptyStr THEN S("(unknown-mount)") ELSE first

\* C23: the display label of a bucket is the mount path of the first login
\* record observed for its key, and no later line changes it, whatever the
\* path of the later records of the key.
DisplayLabelIsFirstAndKept ==
    /\ []LabelIsFirstMountPath
    /\ [][\A a \in Keys(mounts) :
             Has(mounts', a) /\ mounts'.map[a].display_mount = mounts.map[a].display_mount]_vars

\* a key has had records under two mount paths and shows the first
DisplayLabelIsFirstAndKeptWitness ==
    \E a \in Keys(mounts) :
       \E i \in LoginsOfKey(a), j \in LoginsOfKey(a) :
          /\ i < j
          /\ MountPathOf(consumed[i]) # MountPathOf(consumed[j])
          /\ mounts.map[a].display_mount = MountPathOf(consumed[i])


---------------------------------------------------------------------------
(* C24 *)

\* the mount accessor of a login line, None when the record has none
AccessorOf(line) == Get(RequestOf(line), "mount_accessor")

\* the key under which the record is to be bucketed: its accessor, and its
\* mount path only when it has no accessor
ClaimedKey(line) ==
    IF AccessorOf(line) # None /\ AccessorOf(line) # EmptyStr
    THEN AccessorOf(line) ELSE MountPathOf(line)

\* the positions of the login records read
LoginPositions == {i \in 1..Len(consumed) : IsLoginLine(consumed[i])}

\* C24: login records are bucketed by their mount accessor when they have one
\* and by their mount path otherwise: the buckets are those of the keys so
\* defined, and each bucket has counted exactly the records of its key, so
\* records of one accessor share a bucket whatever their paths and records of
\* different accessors never do, even on equal paths.
BucketedByAccessor ==
    pc # "crashed" =>
        /\ Keys(mounts) = {ClaimedKey(consumed[i]) : i \in LoginPositions}
        /\ \A k \in Keys(mounts) :
              mounts.map[k].ok_count + mounts.map[k].fail_count
                = Cardinality({i \in LoginPositions : ClaimedKey(consumed[i]) = k})

\* two accessors have a bucket each after records on one path, one of them
\* also holding a record of another path, and a record without accessor has
\* the bucket of its path
BucketedByAccessorWitness ==
    /\ \E i \in LoginPositions, j \in LoginPositions :
          /\ AccessorOf(consumed[i]) # None
          /\ AccessorOf(consumed[j]) # None
          /\ AccessorOf(consumed[i]) # AccessorOf(consumed[j])
          /\ PathOf(consumed[i]) = PathOf(consumed[j])
    /\ \E i \in LoginPositions, j \in LoginPositions :
          /\ AccessorOf(consumed[i]) # None
          /\ AccessorOf(consumed[i]) = AccessorOf(consumed[j])
          /\ MountPathOf(consumed[i]) # MountPathOf(consumed[j])
    /\ Cardinality(Keys(mounts)) = 2

\* a record without accessor has been bucketed under its mount path
KeyedByPathReached ==
    \E i \in LoginPositions :
       AccessorOf(consumed[i]) = None /\ Has(mounts, MountPathOf(consumed[i]))


---------------------------------------------------------------------------
(* C25 *)

\* the line read by the step, when the step reads one
LineRead == consumed'[Len(consumed')]
ReadsLogin == consumed' # consumed /\ pc' # "crashed" /\ IsLoginLine(LineRead)

\* Counter c2 is Counter c1 with one more for key e
OneMoreFor(c1, c2, e) ==
    /\ Keys(c2) = Keys(c1) \cup {e}
    /\ c2.map[e] = At(c1, e, 0) + 1
    /\ \A x \in Keys(c1) \ {e} : c2.map[x] = c1.map[x]

\* bucket b2 is bucket b1 after a success of entity eid (None for no entity)
\* that touches no workload-label aggregate
UnlabelledSuccess(b1, b2, eid) ==
    /\ b2.ok_count = b1.ok_count + 1
    /\ b2.fail_count = b1.fail_count
    /\ b2.per_sa_logins = b1.per_sa_logins
    /\ b2.per_sa_entities = b1.per_sa_entities
    /\ IF eid = None
       THEN b2.entity_ids = b1.entity_ids /\ b2.per_entity_logins = b1.per_entity_logins
       ELSE /\ b2.entity_ids = b1.entity_ids \cup {eid}
            /\ OneMoreFor(b1.per_entity_logins, b2.per_entity_logins, eid)

\* bucket b2 is bucket b1 after a failure
FailureOnly(b1, b2) ==
    /\ b2.fail_count = b1.fail_count + 1
    /\ b2.ok_count = b1.ok_count
    /\ b2.entity_ids = b1.entity_ids
    /\ b2.per_entity_logins = b1.per_entity_logins
    /\ b2.per_sa_logins = b1.per_sa_logins
    /\ b2.per_sa_entities = b1.per_sa_entities

\* C25: a successful login without workload label adds one to successCount
\* and, with an entity id, to the entity set and the entity's count, and
\* leaves both workload-label tables of its bucket as they were; a failed
\* login adds one to failureCount of its bucket, new or not, and nothing else.
UnlabelledAndFailedLoginFrames ==
    [][ReadsLogin =>
         LET ev == EventOf(LineRead)
             b1 == At(mounts, ClaimedKey(LineRead), NewBucket)
             b2 == At(mounts', ClaimedKey(LineRead), NewBucket)
         IN  /\ (ev.success /\ ev.label = None) => UnlabelledSuccess(b1, b2, ev.eid)
             /\ ~ev.success => FailureOnly(b1, b2)]_vars

\* a bucket that holds a label has counted a later success without label of
\* an entity, and a failure
UnlabelledAndFailedLoginFramesWitness ==
    /\ pc = "read"
    /\ \E i \in LoginPositions, j \in LoginPositions, k \in LoginPositions :
          /\ i < j
          /\ ClaimedKey(consumed[i]) = ClaimedKey(consumed[j])
          /\ ClaimedKey(consumed[k]) = ClaimedKey(consumed[j])
          /\ EventOf(consumed[i]).success /\ EventOf(consumed[i]).label # None
          /\ EventOf(consumed[j]).success /\ EventOf(consumed[j]).label = None
          /\ EventOf(consumed[j]).eid # None
          /\ ~EventOf(consumed[k]).success


---------------------------------------------------------------------------
(* C26 *)

\* Counter c2 has the keys of c1 and counts at least as high
CounterGrows(c1, c2) ==
    \A x \in Keys(c1) : Has(c2, x) /\ c2.map[x] >= c1.map[x]

\* bucket b2 has everything bucket b1 has
BucketGrows(b1, b2) ==
    /\ b2.ok_count >= b1.ok_count
    /\ b2.fail_count >= b1.fail_count
    /\ b1.entity_ids \subseteq b2.entity_ids
    /\ CounterGrows(b1.per_entity_logins, b2.per_entity_logins)
    /\ CounterGrows(b1.per_sa_logins, b2.per_sa_logins)
    /\ \A sa \in Keys(b1.per_sa_entities) :
          /\ Has(b2.per_sa_entities, sa)
          /\ b1.per_sa_entities.map[sa] \subseteq b2.per_sa_entities.map[sa]

\* C26: while the stream is read the tables only grow: no step removes a
\* bucket, an element of an entity set, or a key of a per-entity or per-label
\* count, or lowers a counter or a count.
StreamingStateOnlyGrows ==
    [][\A a \in Keys(mounts) :
          Has(mounts', a) /\ BucketGrows(mounts.map[a], mounts'.map[a])]_vars

\* a bucket has grown to two entities under one label, beside another bucket
StreamingStateOnlyGrowsWitness ==
    /\ pc = "read"
    /\ Cardinality(Keys(mounts)) = 2
    /\ \E a \in Keys(mounts) :
          \E sa \in Keys(mounts.map[a].per_sa_entities) :
             Cardinality(mounts.map[a].per_sa_entities.map[sa]) = 2


---------------------------------------------------------------------------
(* C27 *)

\* the successful login records read
SuccessPositions == {i \in LoginPositions : EventOf(consumed[i]).success}

\* the (mount, entity) and (mount, label) pairs and the (mount, label, entity)
\* triples of the successes read
PairsObserved(f) ==
    {<<ClaimedKey(consumed[i]), EventOf(consumed[i])[f]>> :
        i \in {j \in SuccessPositions : EventOf(consumed[j])[f] # None}}
TriplesObserved ==
    {<<ClaimedKey(consumed[i]), EventOf(consumed[i]).label, EventOf(consumed[i]).eid>> :
        i \in {j \in SuccessPositions :
                  EventOf(consumed[j]).label # None /\ EventOf(consumed[j]).eid # None}}

\* the keys and the set elements the tables store
EntityKeysStored ==
    UNION {{<<a, e>> : e \in Keys(mounts.map[a].per_entity_logins)} : a \in Keys(mounts)}
LabelKeysStored ==
    UNION {{<<a, sa>> : sa \in Keys(mounts.map[a].per_sa_logins)
                               \cup Keys(mounts.map[a].per_sa_entities)} : a \in Keys(mounts)}
LabelEntitiesStored ==
    UNION {UNION {{<<a, sa, e>> : e \in mounts.map[a].per_sa_entities.map[sa]} :
                    sa \in Keys(mounts.map[a].per_sa_entities)} : a \in Keys(mounts)}

\* the tables hold no more buckets, entity keys and label keys than the
\* distinct mount keys, (mount, entity) pairs and (mount, label) pairs read
KeysBoundedByPairs ==
    pc # "crashed" =>
        /\ Cardinality(Keys(mounts))
             <= Cardinality({ClaimedKey(consumed[i]) : i \in LoginPositions})
        /\ Cardinality(EntityKeysStored) <= Cardinality(PairsObserved("eid"))
        /\ Cardinality(LabelKeysStored) <= Cardinality(PairsObserved("label"))

\* the step adds no bucket, no key and no set element to the bucket of the
\* record it reads
AddsNothing ==
    LET b1 == At(mounts, ClaimedKey(LineRead), NewBucket)
        b2 == At(mounts', ClaimedKey(LineRead), NewBucket)
    IN  /\ Keys(mounts') = Keys(mounts)
        /\ b2.display_mount = b1.display_mount
        /\ b2.entity_ids = b1.entity_ids
        /\ Keys(b2.per_entity_logins) = Keys(b1.per_entity_logins)
        /\ Keys(b2.per_sa_logins) = Keys(b1.per_sa_logins)
        /\ b2.per_sa_entities = b1.per_sa_entities

\* the mount key, the entity id and the label of the record read are each
\* in its bucket already
EachRecorded ==
    LET ev == EventOf(LineRead)
        b1 == At(mounts, ClaimedKey(LineRead), NewBucket)
    IN  /\ ReadsLogin
        /\ Has(mounts, ClaimedKey(LineRead))
        /\ ev.success /\ ev.eid # None /\ ev.label # None
        /\ ev.eid \in b1.entity_ids
        /\ ev.label \in Keys(b1.per_sa_logins)

\* the entity is recorded under the label already
PairRecorded ==
    EventOf(LineRead).eid
      \in At(At(mounts, ClaimedKey(LineRead), NewBucket).per_sa_entities,
             EventOf(LineRead).label, {})

\* C27 as stated: a login record whose mount key, entity id and label are
\* each recorded in its bucket adds no bucket, key or set element, and the
\* buckets, entity keys and label keys stored never outnumber the distinct
\* mount keys, (mount, entity) pairs and (mount, label) pairs read.
RepeatedRecordAddsNothing ==
    /\ []KeysBoundedByPairs
    /\ [][EachRecorded => AddsNothing]_vars

\* C27 amended: the record adds nothing when, besides, its entity is already
\* recorded under its label; the keys stored are bounded by the distinct
\* pairs and the elements of the per-label entity sets by the distinct
\* (mount, label, entity) triples read, whatever the number of records.
RepeatedTripleAddsNothing ==
    /\ [](KeysBoundedByPairs
          /\ (pc # "crashed" =>
                Cardinality(LabelEntitiesStored) <= Cardinality(TriplesObserved)))
    /\ [][(EachRecorded /\ PairRecorded) => AddsNothing]_vars

\* a record has been read a second time into a bucket that holds two
\* entities under its label
RepeatedTripleAddsNothingWitness ==
    /\ pc = "read"
    /\ Cardinality(SuccessPositions) > Cardinality(TriplesObserved)
    /\ \E i \in SuccessPositions, j \in SuccessPositions :
          /\ i < j
          /\ consumed[i] = consumed[j]
          /\ EventOf(consumed[j]).eid # None /\ EventOf(consumed[j]).label # None
          /\ Cardinality(At(mounts.map[ClaimedKey(consumed[j])].per_sa_entities,
                            EventOf(consumed[j]).label, {})) = 2


---------------------------------------------------------------------------
(* C28 *)

\* the login records read whose type is not 'response'
NonResponsePositions ==
    {i \in LoginPositions : ~PyEq(Get(consumed[i].entry, "type"), S("response"))}

\* ok_count + fail_count added up over the buckets
RECURSIVE CountedIn(_, _)
CountedIn(m, accs) ==
    IF accs = <<>> THEN 0
    ELSE m.map[Head(accs)].ok_count + m.map[Head(accs)].fail_count
         + CountedIn(m, Tail(accs))

\* the login records read are counted once each, those that are no response
\* among the failures of their bucket
LoginsCountedOnce ==
    pc # "crashed" =>
        /\ CountedIn(mounts, mounts.ord) = Cardinality(LoginPositions)
        /\ \A k \in Keys(mounts) :
              mounts.map[k].fail_count
                >= Cardinality({i \in NonResponsePositions : ClaimedKey(consumed[i]) = k})

\* the step changes one bucket, adding one to one of its two counters
OneBucketOneCounter ==
    \E k \in Keys(mounts') :
       LET b1 == At(mounts, k, NewBucket)
           b2 == mounts'.map[k]
       IN  /\ Keys(mounts') = Keys(mounts) \cup {k}
           /\ \A a \in Keys(mounts) \ {k} : mounts'.map[a] = mounts.map[a]
           /\ \/ b2.ok_count = b1.ok_count + 1 /\ b2.fail_count = b1.fail_count
              \/ b2.ok_count = b1.ok_count /\ b2.fail_count = b1.fail_count + 1

\* C28: every record classified as a login updates exactly one bucket and
\* adds one to exactly one of its successCount and failureCount, so the two
\* counts added up over the buckets give the number of login records read;
\* a login record that is no response, such as the request half of a login,
\* is counted in failureCount.
EveryLoginCountedOnce ==
    /\ []LoginsCountedOnce
    /\ [][ReadsLogin => OneBucketOneCounter]_vars

\* two buckets have counted a request half, a failed response and a success
EveryLoginCountedOnceWitness ==
    /\ pc = "read"
    /\ Cardinality(Keys(mounts)) = 2
    /\ NonResponsePositions # {}
    /\ \E k \in Keys(mounts) : mounts.map[k].ok_count >= 1
    /\ \E k \in Keys(mounts) :
          mounts.map[k].fail_count = 1 /\ mounts.map[k].ok_count = 1

\* a failed response and a request half are both among the failures
RequestAndFailureCounted ==
    /\ NonResponsePositions # {}
    /\ \E k \in Keys(mounts) : mounts.map[k].fail_count = 2


---------------------------------------------------------------------------
(* C29 *)

\* the tables of a bucket agree with each other: the entities counted are the
\* entities in the set, each counted at least once; a label with entities is a
\* label with logins; the entities of a label are entities of the bucket and
\* no more than the logins of the label; the logins of the labels are no more
\* than the successes
TablesAgree(b) ==
    /\ Keys(b.per_entity_logins) = b.entity_ids
    /\ \A e \in Keys(b.per_entity_logins) : b.per_entity_logins.map[e] >= 1
    /\ Keys(b.per_sa_entities) \subseteq Keys(b.per_sa_logins)
    /\ \A sa \in Keys(b.per_sa_entities) :
          /\ b.per_sa_entities.map[sa] \subseteq b.entity_ids
          /\ Cardinality(b.per_sa_entities.map[sa]) <= b.per_sa_logins.map[sa]
    /\ SumValues(b.per_sa_logins) <= b.ok_count

\* the list of counts of lines 265-269 has one count for every entity of the
\* label, in whatever order the set is iterated
CountsCoverLabel(b) ==
    \A sa \in Keys(b.per_sa_entities) :
        \A order \in Orders(b.per_sa_entities.map[sa]) :
            Len(CountsOf(b, order)) = Cardinality(b.per_sa_entities.map[sa])

\* C29: after every line read, every bucket has its tables in agreement: the
\* keys of per_entity_logins are entity_ids and every count is at least 1, the
\* keys of per_sa_entities are keys of per_sa_logins, the entities of a label
\* are in entity_ids and no more than the logins of the label, and the logins
\* of the labels add up to at most ok_count; so the counts the diagnostics
\* collect for a label are as many as the entities of the label.
BucketTablesAgree ==
    \A b \in Buckets : TablesAgree(b) /\ CountsCoverLabel(b)

\* a bucket with a success without label, an entity with two logins and a
\* label with two entities
BucketTablesAgreeWitness ==
    /\ pc = "read"
    /\ \E b \in Buckets :
          /\ SumValues(b.per_sa_logins) < b.ok_count
          /\ \E e \in b.entity_ids : b.per_entity_logins.map[e] >= 2
          /\ \E sa \in Keys(b.per_sa_entities) :
                Cardinality(b.per_sa_entities.map[sa]) = 2

\* a label with two entities and a third login without entity
LabelLoginsExceedEntities ==
    \E b \in Buckets : \E sa \in Keys(b.per_sa_entities) :
        /\ Cardinality(b.per_sa_entities.map[sa]) = 2
        /\ b.per_sa_logins.map[sa] = 3


---------------------------------------------------------------------------
(* C30 *)

\* the mount keys whose bucket has display label d and holds the workload
\* label sa in its table f
BucketsUnder(d, sa, f) ==
    {a \in Keys(mounts) : mounts.map[a].display_mount = d /\ Has(mounts.map[a][f], sa)}

\* the (display label, workload label) pairs of the table f of the buckets
LabelPairs(f) ==
    UNION {{PyTuple(mounts.map[a].display_mount, sa) : sa \in Keys(mounts.map[a][f])} :
             a \in Keys(mounts)}

\* the entities of the pair k in all the buckets that show its display label
EntitiesUnder(k) ==
    UNION {mounts.map[a].per_sa_entities.map[k.v[2]] :
             a \in BucketsUnder(k.v[1], k.v[2], "per_sa_entities")}

\* the logins of the pair k added up over the mount keys accs
RECURSIVE LoginsUnder(_, _)
LoginsUnder(k, accs) ==
    IF accs = <<>> THEN 0
    ELSE (IF Head(accs) \in BucketsUnder(k.v[1], k.v[2], "per_sa_logins")
          THEN mounts.map[Head(accs)].per_sa_logins.map[k.v[2]]
          ELSE 0) + LoginsUnder(k, Tail(accs))

\* section 3 has one entry per (display label, workload label): its entities
\* are the union and its logins the sum over the buckets of that display label
RankingByDisplayLabel ==
    /\ Keys(report.global_sa_entities) = LabelPairs("per_sa_entities")
    /\ Keys(report.global_sa_logins) = LabelPairs("per_sa_logins")
    /\ \A k \in Keys(report.global_sa_entities) :
          report.global_sa_entities.map[k] = EntitiesUnder(k)
    /\ \A k \in Keys(report.global_sa_logins) :
          report.global_sa_logins.map[k] = LoginsUnder(k, mounts.ord)
    /\ Len(report.top_sa) = MinOf({TOP_N, Cardinality(LabelPairs("per_sa_entities"))})
    /\ \A i \in 1..Len(report.top_sa) :
          LET r == report.top_sa[i]
              k == PyTuple(r.mount_label, r.sa_label)
          IN  /\ k \in LabelPairs("per_sa_entities")
              /\ r.ent_n = Cardinality(EntitiesUnder(k))
              /\ r.logins = LoginsUnder(k, mounts.ord)

\* section 4 takes the (mount key, workload label) pairs one by one, each with
\* the entities and the counts of its own bucket
DiagnosticsByMountKey ==
    /\ di <= Cardinality(UNION {{<<a, sa>> : sa \in Keys(mounts.map[a].per_sa_entities)} :
                                   a \in Keys(mounts)})
    /\ pc = "done" =>
          di = Cardinality(UNION {{<<a, sa>> : sa \in Keys(mounts.map[a].per_sa_entities)} :
                                     a \in Keys(mounts)})
    /\ row.computed =>
          LET b    == mounts.map[row.accessor]
              ents == b.per_sa_entities.map[row.sa]
          IN  /\ row.mlabel = b.display_mount
              /\ Len(row.counts) = Cardinality(ents)
              /\ \E order \in Orders(ents) :
                    row.counts = [i \in 1..Len(order) |-> b.per_entity_logins.map[order[i]]]

\* C30: the ranking of section 3 and total_service_accounts are keyed by
\* (display label, workload label): buckets of different mount keys and one
\* display label give one entry, with the union of their per_sa_entities sets
\* and the sum of their per_sa_logins counts, while section 4 evaluates every
\* (mount key, workload label) pair on the tables of its own bucket.
RankingMergesDiagnosticsSplit ==
    /\ pc \in {"diag", "done"} => RankingByDisplayLabel /\ DiagnosticsByMountKey
    /\ pc = "done" =>
          report.result.total_service_accounts
            = Cardinality(LabelPairs("per_sa_entities"))

\* two mount keys with one display label and one workload label: one entry
\* with two entities and three logins, two diagnostics, the later one on the
\* one entity of its bucket
RankingMergesDiagnosticsSplitWitness ==
    /\ pc = "done"
    /\ Cardinality(Keys(mounts)) = 2
    /\ report.result.total_service_accounts = 1
    /\ Len(report.top_sa) = 1
    /\ report.top_sa[1].ent_n = 2
    /\ report.top_sa[1].logins = 3
    /\ di = 2
    /\ row.computed /\ Len(row.counts) = 1

====
